---- MODULE Spec2Model ----
(***************************************************************************)
(* Verification model of django-sam-healthcare.                            *)
(*                                                                         *)
(*  - logtrace/services.py : the trace ingest engine (ingest_payload and   *)
(*    its helpers), run against a store of TraceLog / TraceStep rows.      *)
(*  - example/hl7_utils.py : the X12 837 -> 835 -> reconciliation chain.   *)
(*                                                                         *)
(* Texts are sequences of tokens.  A token is a record [t, n]: t is the    *)
(* literal text of the token (a delimiter such as "|", "*", "~", "\n", or  *)
(* a word such as "MSH"), and n carries the value of the three token kinds *)
(* whose text is computed: "str" (a JSON string literal of n letters),     *)
(* "int" (the decimal integer n) and "dec2" (n cents written with two      *)
(* decimals, "%.2f").                                                      *)
(***************************************************************************)
EXTENDS Integers, Sequences, FiniteSets, TLC

VARIABLES
    logs,       \* TraceLog table: log id -> row
    steps,      \* TraceStep table: log id -> rows with that trace_log, in creation order
    nextLogId,  \* next primary key of the TraceLog table
    call,       \* per ingest_payload invocation: its frame (pc and locals)
    ops,        \* per invocation: the store operations it has performed, in order
    x12,        \* frame of the 837 -> 835 -> reconciliation chain
    hl7,        \* frame of the HL7 functions applied to a message
    mirth       \* MirthHL7View.post: the request in progress and the HL7MessageLog table

vars == <<logs, steps, nextLogId, call, ops, x12, hl7, mirth>>

-----------------------------------------------------------------------------
(* Bounds of the model *)

NCalls == 2          \* concurrent ingest_payload invocations (SpecConc)
MaxKeys == 21        \* largest number of members of a JSON object payload
MaxCents == 120      \* largest billed total, in cents, of an arbitrary claim text

-----------------------------------------------------------------------------
(* Text primitives (Python str methods, on token sequences) *)

T(s) == [t |-> s, n |-> 0]
StrLit(k) == [t |-> "str", n |-> k]
IntLit(k) == [t |-> "int", n |-> k]
Dec2(c) == [t |-> "dec2", n |-> c]

Txt(ss) == [i \in 1..Len(ss) |-> T(ss[i])]

Min(a, b) == IF a <= b THEN a ELSE b
Max(a, b) == IF a >= b THEN a ELSE b

IsWs(tok) == tok.t \in {" ", "\n", "\r", "\t"}
IsEol(tok) == tok.t \in {"\n", "\r"}

RECURSIVE LStrip(_)
LStrip(s) == IF s # <<>> /\ IsWs(Head(s)) THEN LStrip(Tail(s)) ELSE s

RECURSIVE RStrip(_)
RStrip(s) ==
    IF s # <<>> /\ IsWs(s[Len(s)]) THEN RStrip(SubSeq(s, 1, Len(s) - 1)) ELSE s

\* str.strip()
Strip(s) == RStrip(LStrip(s))

\* str.startswith(pat), pat a sequence of literal token texts
StartsWith(s, pat) ==
    /\ Len(s) >= Len(pat)
    /\ \A i \in 1..Len(pat) : s[i].t = pat[i]

\* pat in s
Contains(s, pat) ==
    \E k \in 0..(Len(s) - Len(pat)) :
        \A i \in 1..Len(pat) : s[k + i].t = pat[i]

\* positions of the separator, and the position of its k-th occurrence
\* (0 before the text, Len(s) + 1 after the last occurrence)
SepPositions(s, sep) == {i \in 1..Len(s) : s[i].t = sep}

NthSep(s, sep, k) ==
    IF k = 0 THEN 0
    ELSE IF k > Cardinality(SepPositions(s, sep)) THEN Len(s) + 1
    ELSE CHOOSE p \in SepPositions(s, sep) :
             Cardinality({q \in SepPositions(s, sep) : q < p}) = k - 1

\* str.split(sep): always at least one part
Split(s, sep) ==
    [k \in 1..(Cardinality(SepPositions(s, sep)) + 1) |->
        SubSeq(s, NthSep(s, sep, k - 1) + 1, NthSep(s, sep, k) - 1)]

\* str.splitlines(): "\n", "\r" and "\r\n" end a line; no empty last line.
\* LineEnds holds the position of the last character of each terminator,
\* LineEnd(s, k) the k-th of them and LineStop(s, p) the first character of
\* the terminator that ends at p
LineEnds(s) ==
    {i \in 1..Len(s) :
        /\ IsEol(s[i])
        /\ ~(s[i].t = "\r" /\ i < Len(s) /\ s[i + 1].t = "\n")}

LineEnd(s, k) ==
    IF k = 0 THEN 0
    ELSE IF k > Cardinality(LineEnds(s)) THEN Len(s) + 1
    ELSE CHOOSE p \in LineEnds(s) : Cardinality({q \in LineEnds(s) : q < p}) = k - 1

LineStop(s, p) ==
    IF p > Len(s) THEN p
    ELSE IF s[p].t = "\n" /\ p > 1 /\ s[p - 1].t = "\r" THEN p - 1
    ELSE p

SplitLines(s) ==
    [k \in 1..(Cardinality(LineEnds(s))
               + (IF LineEnd(s, Cardinality(LineEnds(s))) < Len(s) THEN 1 ELSE 0)) |->
        SubSeq(s, LineEnd(s, k - 1) + 1, LineStop(s, LineEnd(s, k)) - 1)]

\* str.replace(old, ""), old a single token
Remove(s, old) == SelectSeq(s, LAMBDA tok : tok.t # old)

\* len(str): characters of the text
RECURSIVE TextLen(_)
TextLen(s) ==
    IF s = <<>> THEN 0
    ELSE (IF Head(s).t \in {"str", "int", "dec2"} THEN Head(s).n + 2 ELSE Len(Head(s).t))
         + TextLen(Tail(s))

\* next((ln for ln in lines if ln.startswith(pat)), "")
FirstLineWith(lines, pat) ==
    IF \E i \in 1..Len(lines) : StartsWith(lines[i], pat)
    THEN lines[CHOOSE i \in 1..Len(lines) :
                   /\ StartsWith(lines[i], pat)
                   /\ \A j \in 1..(i - 1) : ~StartsWith(lines[j], pat)]
    ELSE <<>>

\* faulty variant of FieldOr: an index past the end reads the last field
FieldOrLast(parts, i, default) ==
    IF Len(parts) > i THEN parts[i + 1] ELSE parts[Len(parts)]

\* parts[i] if len(parts) > i else default   (i is the 0-based Python index)
FieldOr(parts, i, default) == IF Len(parts) > i THEN parts[i + 1] ELSE default

-----------------------------------------------------------------------------
(* logtrace/models.py: the choices of the two tables *)

InputTypes == {"HL7", "JSON", "EDI", "OTHER"}
LogStatus == {"RECEIVED", "PROCESSED", "FAILED"}
StepStatus == {"OK", "WARN", "ERROR"}

-----------------------------------------------------------------------------
(* logtrace/services.py: classification *)

\* faulty variant of guess_input_type: the EDI rule is tried before the HL7 rule
GuessEdiFirst(raw_payload, declared) ==
    IF declared \in {"HL7", "JSON", "EDI"} THEN declared
    ELSE IF StartsWith(Strip(raw_payload), <<"{">>) \/ StartsWith(Strip(raw_payload), <<"[">>)
    THEN "JSON"
    ELSE IF \/ StartsWith(Strip(raw_payload), <<"ISA">>)
            \/ Contains(Strip(raw_payload), <<"*", "00", "*">>)
    THEN "EDI"
    ELSE IF Contains(raw_payload, <<"MSH", "|">>) THEN "HL7"
    ELSE "OTHER"

\* declared is a string, or "None" for an absent declared type
guess_input_type(raw_payload, declared) ==
    IF declared \in {"HL7", "JSON", "EDI"} THEN declared
    ELSE LET s == Strip(raw_payload) IN
         IF StartsWith(s, <<"{">>) \/ StartsWith(s, <<"[">>) THEN "JSON"
         ELSE IF Contains(raw_payload, <<"MSH", "|">>) THEN "HL7"
         ELSE IF StartsWith(s, <<"ISA">>) \/ Contains(s, <<"*", "00", "*">>) THEN "EDI"
         ELSE "OTHER"

-----------------------------------------------------------------------------
(* json.loads, for flat documents: an object of string keys with scalar    *)
(* values, an array of scalars, or one scalar.  White space between the    *)
(* tokens is insignificant.  The result is tagged: ok = FALSE is the       *)
(* JSONDecodeError.                                                        *)

IsScalarTok(tok) == tok.t \in {"str", "int", "true", "false", "null"}

RECURSIVE DedupKeys(_, _)
DedupKeys(ks, acc) ==
    IF ks = <<>> THEN acc
    ELSE IF \E i \in 1..Len(acc) : acc[i] = Head(ks) THEN DedupKeys(Tail(ks), acc)
    ELSE DedupKeys(Tail(ks), Append(acc, Head(ks)))

JsonFail == [ok |-> FALSE, kind |-> "", keys |-> <<>>, len |-> 0]

JsonLoads(raw) ==
    LET toks == SelectSeq(raw, LAMBDA tok : ~IsWs(tok))
        n == Len(toks)
        m == (n - 1) \div 4
        a == (n - 1) \div 2
    IN
    IF n = 0 THEN JsonFail
    ELSE IF n = 1 THEN
        IF toks[1].t = "str"
            THEN [ok |-> TRUE, kind |-> "str", keys |-> <<>>, len |-> toks[1].n]
        ELSE IF IsScalarTok(toks[1])
            THEN [ok |-> TRUE, kind |-> "scalar", keys |-> <<>>, len |-> 0]
        ELSE JsonFail
    ELSE IF toks[1].t = "{" THEN
        IF n = 2 /\ toks[2].t = "}"
            THEN [ok |-> TRUE, kind |-> "dict", keys |-> <<>>, len |-> 0]
        ELSE IF /\ n = 4 * m + 1 /\ m >= 1
                /\ \A j \in 1..m :
                     /\ toks[4 * j - 2].t = "str"
                     /\ toks[4 * j - 1].t = ":"
                     /\ IsScalarTok(toks[4 * j])
                     /\ toks[4 * j + 1].t = (IF j = m THEN "}" ELSE ",")
            THEN LET ks == DedupKeys([j \in 1..m |-> toks[4 * j - 2].n], <<>>)
                 IN [ok |-> TRUE, kind |-> "dict", keys |-> ks, len |-> Len(ks)]
        ELSE JsonFail
    ELSE IF toks[1].t = "[" THEN
        IF n = 2 /\ toks[2].t = "]"
            THEN [ok |-> TRUE, kind |-> "list", keys |-> <<>>, len |-> 0]
        ELSE IF /\ n = 2 * a + 1 /\ a >= 1
                /\ \A j \in 1..a :
                     /\ IsScalarTok(toks[2 * j])
                     /\ toks[2 * j + 1].t = (IF j = a THEN "]" ELSE ",")
            THEN [ok |-> TRUE, kind |-> "list", keys |-> <<>>, len |-> a]
        ELSE JsonFail
    ELSE JsonFail

-----------------------------------------------------------------------------
(* logtrace/services.py: StepResult and the preview dict *)

\* A preview dict, as a record of every key the code ever sets; `fields`
\* names the keys the dict holds.  An absent key reads as empty, which is what
\* every .get(...) of the code makes of it.
EmptyPreview ==
    [type |-> "", fields |-> {}, keys |-> <<>>, kind |-> "", len |-> 0,
     segment |-> "", message_type |-> <<>>, sending_app |-> <<>>,
     sending_facility |-> <<>>, receiving_app |-> <<>>,
     receiving_facility |-> <<>>, message_control_id |-> <<>>,
     patient_id |-> <<>>, dob |-> <<>>, warnings |-> <<>>, has_ISA |-> FALSE]

NoDetails == [kind |-> "", preview |-> EmptyPreview, errors |-> <<>>, path |-> <<>>]

StepResult(step_name, status, message, details) ==
    [step_name |-> step_name, status |-> status, message |-> message,
     details |-> details]

PreviewDetails(preview) == [NoDetails EXCEPT !.kind = "preview", !.preview = preview]

\* str.isdigit() on a field: every word of it is a run of decimal digits
DigitWords == {"19900101", "19800101", "1990", "12345", "999", "00"}
IsDigit(s) == s # <<>> /\ \A i \in 1..Len(s) : s[i].t \in DigitWords

PreviewKeyLimit == 20

\* the except branch of _parse_preview
parse_preview_failed(input_type) ==
    [preview |-> [EmptyPreview EXCEPT
                    !.type = input_type,
                    !.fields = {"type", "message_type", "warnings"},
                    !.warnings = <<"Preview parse failed">>],
     steps |-> <<StepResult("parse", "ERROR", "Parsing failed",
                            [NoDetails EXCEPT !.kind = "error"])>>]

parse_preview_json(raw_payload) ==
    LET obj == JsonLoads(raw_payload) IN
    IF ~obj.ok \/ obj.kind = "scalar"
        \* json.loads raised, or len(obj) raised on a number, boolean or null
        THEN parse_preview_failed("JSON")
    ELSE LET preview ==
                 IF obj.kind = "dict"
                 THEN [EmptyPreview EXCEPT
                         !.type = "JSON", !.fields = {"type", "keys"},
                         !.keys = SubSeq(obj.keys, 1, Min(PreviewKeyLimit, Len(obj.keys)))]
                 ELSE [EmptyPreview EXCEPT
                         !.type = "JSON", !.fields = {"type", "kind", "len"},
                         !.kind = "list", !.len = obj.len]
         IN [preview |-> preview,
             steps |-> <<StepResult("parse", "OK", "JSON parsed", PreviewDetails(preview))>>]

\* the fields of the first line that starts with "<tag>|", or no fields
SegFields(raw_payload, tag) ==
    LET line == FirstLineWith(SplitLines(raw_payload), <<tag, "|">>)
    IN IF line # <<>> THEN Split(line, "|") ELSE <<>>

Hl7Warnings(patient_id, dob) ==
    (IF Strip(patient_id) = <<>>
     THEN <<"Missing PID-3 Patient Identifier">> ELSE <<>>)
    \o (IF dob # <<>> /\ (TextLen(dob) # 8 \/ ~IsDigit(dob))
        THEN <<"Invalid PID-7 DOB format (expected YYYYMMDD)">> ELSE <<>>)

Hl7Preview(msh_parts, patient_id, dob) ==
    [EmptyPreview EXCEPT
       !.type = "HL7",
       !.fields = {"type", "segment", "message_type", "sending_app",
                   "sending_facility", "receiving_app", "receiving_facility",
                   "message_control_id", "patient_id", "dob", "warnings"},
       !.segment = "MSH",
       !.message_type = FieldOr(msh_parts, 8, <<>>),
       !.sending_app = FieldOr(msh_parts, 2, <<>>),
       !.sending_facility = FieldOr(msh_parts, 3, <<>>),
       !.receiving_app = FieldOr(msh_parts, 4, <<>>),
       !.receiving_facility = FieldOr(msh_parts, 5, <<>>),
       !.message_control_id = FieldOr(msh_parts, 9, <<>>),
       !.patient_id = patient_id,
       !.dob = dob,
       !.warnings = Hl7Warnings(patient_id, dob)]

ParsedOk(preview, message) ==
    [preview |-> preview,
     steps |-> <<StepResult("parse", "OK", message, PreviewDetails(preview))>>]

Hl7PreviewOf(msh_parts, pid_parts) ==
    Hl7Preview(msh_parts, FieldOr(pid_parts, 3, <<>>), FieldOr(pid_parts, 7, <<>>))

parse_preview_hl7(raw_payload) ==
    ParsedOk(Hl7PreviewOf(SegFields(raw_payload, "MSH"), SegFields(raw_payload, "PID")),
             "HL7 preview extracted (MSH/PID)")

parse_preview(input_type, raw_payload) ==
    IF input_type = "JSON" THEN parse_preview_json(raw_payload)
    ELSE IF input_type = "HL7" THEN parse_preview_hl7(raw_payload)
    ELSE IF input_type = "EDI" THEN
        LET preview == [EmptyPreview EXCEPT
                          !.type = "EDI", !.fields = {"type", "has_ISA", "len"},
                          !.has_ISA = StartsWith(Strip(raw_payload), <<"ISA">>),
                          !.len = TextLen(raw_payload)]
        IN [preview |-> preview,
            steps |-> <<StepResult("parse", "OK", "EDI envelope preview extracted",
                                   PreviewDetails(preview))>>]
    ELSE
        LET preview == [EmptyPreview EXCEPT
                          !.type = "OTHER", !.fields = {"type", "len"},
                          !.len = TextLen(raw_payload)]
        IN [preview |-> preview,
            steps |-> <<StepResult("parse", "WARN", "Unknown input type; stored as raw",
                                   PreviewDetails(preview))>>]

validate(preview, input_type, raw_payload) ==
    LET e1 == IF input_type = "HL7" /\ ~Contains(raw_payload, <<"MSH", "|">>)
              THEN <<"Missing MSH segment">> ELSE <<>>
        e2 == IF input_type = "JSON" /\ (preview.fields = {} \/ preview.type # "JSON")
              THEN <<"JSON preview missing or invalid (parse likely failed)">> ELSE <<>>
        e3 == IF input_type = "EDI" /\ ~StartsWith(Strip(raw_payload), <<"ISA">>)
              THEN <<"Missing ISA segment">> ELSE <<>>
        errors == e1 \o e2 \o e3
    IN IF errors # <<>>
       THEN <<StepResult("validate", "ERROR", "Validation errors found",
                         [NoDetails EXCEPT !.kind = "errors", !.errors = errors])>>
       ELSE <<StepResult("validate", "OK", "Validation passed", NoDetails)>>

build_summary(input_type, preview, status, error_count) ==
    LET mt == IF input_type = "HL7" THEN preview.message_type ELSE <<>> IN
    <<T(input_type), T(" "), T(status)>>
    \o (IF mt # <<>> THEN <<T(" (")>> \o mt \o <<T(")")>> ELSE <<>>)
    \o (IF error_count # 0
        THEN <<T(" - "), IntLit(error_count), T(" error(s)")>> ELSE <<>>)

\* lines 196-205: one WARN validate step per preview warning
WarningSteps(input_type, warnings) ==
    IF input_type = "HL7"
    THEN [i \in 1..Len(warnings) |->
             StepResult("validate", "WARN", warnings[i],
                        [NoDetails EXCEPT !.kind = "validation_warning"])]
    ELSE <<>>

\* faulty variant of AnyError: a WARN step fails the log too
AnyErrorOrWarn(ss) == \E i \in 1..Len(ss) : ss[i].status \in {"ERROR", "WARN"}

\* any(s.status == ERROR for s in all_steps)
AnyError(ss) == \E i \in 1..Len(ss) : ss[i].status = "ERROR"

\* lines 212-231: the transform step and the status it decides
TransformStep(failed, input_type, output_type) ==
    IF failed
    THEN StepResult("transform", "WARN", "Transform skipped due to prior errors",
                    [NoDetails EXCEPT !.kind = "target", !.path = <<output_type>>])
    ELSE StepResult("transform", "OK", "Transform planned (MVP)",
                    [NoDetails EXCEPT !.kind = "path",
                                      !.path = <<input_type, output_type>>])

StatusAfter(failed) == IF failed THEN "FAILED" ELSE "PROCESSED"

Transformed(preview, prior, failed, input_type, output_type) ==
    [preview |-> preview,
     all_steps |-> Append(prior, TransformStep(failed, input_type, output_type)),
     status |-> StatusAfter(failed)]

WithTransform(preview, prior, input_type, output_type) ==
    Transformed(preview, prior, AnyError(prior), input_type, output_type)

\* faulty variant of Validated: the validation stage runs before the warnings
\* are converted
ValidatedThenWarned(preview, parse_steps, input_type, raw_payload, output_type) ==
    WithTransform(preview,
                  parse_steps \o validate(preview, input_type, raw_payload)
                      \o WarningSteps(input_type, preview.warnings),
                  input_type, output_type)

\* lines 195-209: the warnings become steps, then the validation stage adds its
\* step
Validated(preview, parse_steps, input_type, raw_payload, output_type) ==
    WithTransform(preview,
                  parse_steps \o WarningSteps(input_type, preview.warnings)
                      \o validate(preview, input_type, raw_payload),
                  input_type, output_type)

Parsed(parsed, input_type, raw_payload, output_type) ==
    Validated(parsed.preview, parsed.steps, input_type, raw_payload, output_type)

\* ingest_payload, lines 189-231: the timeline and the status decided in memory
ingest_steps(input_type, raw_payload, output_type) ==
    Parsed(parse_preview(input_type, raw_payload), input_type, raw_payload, output_type)

-----------------------------------------------------------------------------
(* The meta argument: a JSON value.  ty is "none" (None), "dict" or "list" *)
(* (any truthy value that is not a map); d maps the keys of a dict to      *)
(* values [ty, s, n] with ty "str" (the text s), "int" (the number n) or   *)
(* "none".                                                                 *)

VNone == [ty |-> "none", s |-> <<>>, n |-> 0]
VStr(s) == [ty |-> "str", s |-> s, n |-> 0]
VInt(n) == [ty |-> "int", s |-> <<>>, n |-> n]

\* Python truth value
Truthy(v) ==
    CASE v.ty = "str" -> v.s # <<>>
      [] v.ty = "int" -> v.n # 0
      [] OTHER -> FALSE

\* a or b
Or(a, b) == IF Truthy(a) THEN a ELSE b

DictGet(d, k) == IF k \in DOMAIN d THEN d[k] ELSE VNone
DictSet(d, k, v) == [x \in (DOMAIN d) \cup {k} |-> IF x = k THEN v ELSE d[x]]

EmptyDict == [x \in {} |-> VNone]
MetaNone == [ty |-> "none", d |-> EmptyDict]
MetaDict(d) == [ty |-> "dict", d |-> d]
MetaList == [ty |-> "list", d |-> EmptyDict]

\* meta or {}
MetaOrEmpty(meta) ==
    IF meta.ty = "none" \/ (meta.ty = "dict" /\ DOMAIN meta.d = {})
    THEN MetaDict(EmptyDict) ELSE meta

\* str.lower()
LowerTok(tok) ==
    CASE tok.t = "UI" -> T("ui")
      [] tok.t = "TRACE_UI" -> T("trace_ui")
      [] tok.t = "Web" -> T("web")
      [] OTHER -> tok

Lower(s) == [i \in 1..Len(s) |-> LowerTok(s[i])]

\* f"{sending_app or 'UNKNOWN_APP'}:{sending_fac or 'UNKNOWN_FAC'}" if either, else ""
DerivedSource(sending_app, sending_fac) ==
    IF sending_app # <<>> \/ sending_fac # <<>>
    THEN (IF sending_app # <<>> THEN sending_app ELSE <<T("UNKNOWN_APP")>>)
         \o <<T(":")>>
         \o (IF sending_fac # <<>> THEN sending_fac ELSE <<T("UNKNOWN_FAC")>>)
    ELSE <<>>

\* lines 262-265
SourceSystem(raw_source, derived_source) ==
    IF raw_source = <<>>
       \/ Lower(raw_source) \in {<<T("trace_ui")>>, <<T("ui")>>, <<T("web")>>}
    THEN (IF derived_source # <<>> THEN derived_source ELSE <<T("unknown")>>)
    ELSE raw_source

\* lines 268-271: meta_dict.setdefault("message_type", mt)
WithMessageType(d, input_type, mt) ==
    IF input_type = "HL7" /\ mt # <<>> /\ "message_type" \notin DOMAIN d
    THEN DictSet(d, "message_type", VStr(mt)) ELSE d

\* line 255, before .strip()
RawSourceValue(meta_dict) ==
    Or(Or(DictGet(meta_dict, "source_system"), DictGet(meta_dict, "source")), VStr(<<>>))

NormalizedDict(meta_dict, src, input_type, preview) ==
    IF src.ty # "str"
    THEN [raised |-> TRUE, meta |-> MetaDict(meta_dict)]
    ELSE [raised |-> FALSE,
          meta |-> MetaDict(WithMessageType(
                      DictSet(meta_dict, "source_system",
                              VStr(SourceSystem(
                                  Strip(src.s),
                                  IF input_type = "HL7"
                                  THEN DerivedSource(Strip(preview.sending_app),
                                                     Strip(preview.sending_facility))
                                  ELSE <<>>))),
                      input_type, preview.message_type))]

\* lines 251-253
MetaDictOf(log_meta) ==
    IF MetaOrEmpty(log_meta).ty = "dict" THEN MetaOrEmpty(log_meta).d ELSE EmptyDict

\* ingest_payload, lines 250-273.  raised: .strip() was called on a value
\* that is not a str (AttributeError)
normalize_meta(log_meta, input_type, preview) ==
    NormalizedDict(MetaDictOf(log_meta), RawSourceValue(MetaDictOf(log_meta)),
                   input_type, preview)

-----------------------------------------------------------------------------
(* Inputs of ingest_payload *)

RECURSIVE JoinWith(_, _)
JoinWith(parts, sep) ==
    IF parts = <<>> THEN <<>>
    ELSE IF Len(parts) = 1 THEN parts[1]
    ELSE parts[1] \o sep \o JoinWith(Tail(parts), sep)

\* a segment from its fields, and a message from its segments
Seg(fields) == JoinWith(fields, <<T("|")>>)
Msg(segs, eol) == JoinWith(segs, eol)

\* {"k1": 1, ..., "kn": n}
JsonObjectText(n) ==
    IF n = 0 THEN Txt(<<"{", "}">>)
    ELSE [i \in 1..(4 * n + 1) |->
            IF i = 1 THEN T("{")
            ELSE IF i = 4 * n + 1 THEN T("}")
            ELSE LET j == ((i - 2) \div 4) + 1
                     r == (i - 2) % 4
                 IN CASE r = 0 -> StrLit(j)
                      [] r = 1 -> T(":")
                      [] r = 2 -> IntLit(j)
                      [] OTHER -> T(",")]

JsonPayloads ==
    {JsonObjectText(n) : n \in {0, 2, PreviewKeyLimit, MaxKeys}}
    \cup {<<T("{"), StrLit(1), T(":"), IntLit(1), T(","), StrLit(1), T(":"), IntLit(2), T("}")>>,
          <<T(" "), T("{"), StrLit(1), T(":"), T(" "), IntLit(1), T("}"), T("\n")>>,
          <<T("["), T("]")>>,
          <<T("["), IntLit(1), T(","), StrLit(2), T("]")>>,
          <<T("{"), T("not"), T(" "), T("json")>>,
          <<T("["), IntLit(1), T(",")>>,
          <<IntLit(42)>>,
          <<StrLit(3)>>}

MSH_full ==
    Seg(<<Txt(<<"MSH">>), Txt(<<"^~\\&">>), Txt(<<"MIRTH">>), Txt(<<"SENDING">>),
          Txt(<<"RECV">>), Txt(<<"FAC">>), Txt(<<"20250101120000">>), <<>>,
          Txt(<<"ADT", "^", "A01">>), Txt(<<"MSG1">>), Txt(<<"P">>), Txt(<<"2.3">>)>>)
MSH_nofac ==
    Seg(<<Txt(<<"MSH">>), Txt(<<"^~\\&">>), <<>>, Txt(<<"SENDING">>)>>)
MSH_short == Seg(<<Txt(<<"MSH">>), Txt(<<"^~\\&">>)>>)
PID_good ==
    Seg(<<Txt(<<"PID">>), <<>>, <<>>, Txt(<<"999", "^", "^", "^", "MRN">>), <<>>,
          Txt(<<"DOE", "^", "JANE">>), <<>>, Txt(<<"19900101">>), Txt(<<"F">>)>>)
PID_noid_baddob ==
    Seg(<<Txt(<<"PID">>), <<>>, <<>>, Txt(<<" ">>), <<>>,
          Txt(<<"DOE", "^", "JANE">>), <<>>, Txt(<<"1990">>), Txt(<<"F">>)>>)
PID_renamed ==
    Seg(<<Txt(<<"PID">>), <<>>, <<>>, Txt(<<"999", "^", "^", "^", "MRN">>), <<>>,
          Txt(<<"ROE", "^", "JOHN">>), <<>>, Txt(<<"19800101">>), Txt(<<"F">>)>>)
PID_alphadob ==
    Seg(<<Txt(<<"PID">>), <<>>, <<>>, Txt(<<"12345">>), <<>>,
          Txt(<<"DOE", "^", "JOHN">>), <<>>, Txt(<<"JAN 1990">>), Txt(<<"M">>)>>)
PV1_inpatient == Seg(<<Txt(<<"PV1">>), <<>>, Txt(<<"I">>), Txt(<<"W", "^", "101", "^", "1">>)>>)

LF == <<T("\n")>>
CR == <<T("\r")>>

Hl7Payloads ==
    {Msg(<<MSH_full, PID_good, PV1_inpatient>>, LF),
     Msg(<<MSH_full, PID_good, PV1_inpatient>>, CR),
     Msg(<<MSH_full, PID_noid_baddob>>, LF),
     Msg(<<MSH_full, PID_alphadob>>, CR \o LF),
     Msg(<<MSH_full>>, LF),
     Msg(<<MSH_nofac, PID_good>>, LF),
     Msg(<<MSH_nofac, PID_renamed>>, LF),
     Msg(<<MSH_short, PID_good>>, LF),
     <<T(" ")>> \o Msg(<<MSH_full, PID_good>>, LF),
     Msg(<<PID_good, PV1_inpatient>>, LF)}

EdiPayloads ==
    {Txt(<<"ISA", "*", "00", "*", "          ", "*", "00", "*", "~">>),
     Txt(<<"GS", "*", "00", "*", "X", "~">>)}

OtherPayloads == {<<>>, Txt(<<"hello">>), Txt(<<" ", "\n">>)}

\* payloads that more than one rule of _guess_input_type matches
MixedPayloads ==
    {Txt(<<"{", "MSH", "|", "*", "00", "*">>),
     Txt(<<"ISA", "*", "00", "*", "MSH", "|", "~">>),
     Txt(<<" ", "ISA", "~", "\n">>)}

RawPayloads ==
    JsonPayloads \cup Hl7Payloads \cup EdiPayloads \cup OtherPayloads \cup MixedPayloads

\* "None" stands for an absent declared type
DeclaredTypes == {"None", "HL7", "JSON", "EDI", "OTHER", "XML"}

OutputTypes == {"FHIR_JSON", "X12_837"}

Metas ==
    {MetaNone,
     MetaDict(EmptyDict),
     MetaList,
     MetaDict([k \in {"source_system"} |-> VStr(Txt(<<"EPIC">>))]),
     MetaDict([k \in {"source_system"} |-> VStr(Txt(<<" ", "UI", " ">>))]),
     MetaDict([k \in {"source"} |-> VStr(Txt(<<"LAB">>))]),
     MetaDict([k \in {"source_system", "message_type"} |->
                  IF k = "source_system" THEN VNone ELSE VStr(Txt(<<"ORU">>))]),
     MetaDict([k \in {"source_system"} |-> VInt(7)]),
     MetaDict([k \in {"source_system", "source"} |->
                  IF k = "source_system" THEN VInt(0) ELSE VInt(7)])}

\* the inputs of the concurrent specification: one clean JSON object, one
\* malformed JSON object with a meta whose source_system is a number, one HL7
\* message with two preview warnings, one EDI text without its envelope
ConcInputs ==
    {[raw_payload |-> JsonObjectText(2), declared |-> "None",
      output_type |-> "FHIR_JSON", meta |-> MetaNone],
     [raw_payload |-> <<T("{"), T("not"), T(" "), T("json")>>, declared |-> "None",
      output_type |-> "FHIR_JSON",
      meta |-> MetaDict([k \in {"source_system"} |-> VInt(7)])],
     [raw_payload |-> Msg(<<MSH_full, PID_noid_baddob>>, LF), declared |-> "HL7",
      output_type |-> "FHIR_JSON",
      meta |-> MetaDict([k \in {"source_system"} |-> VStr(Txt(<<"EPIC">>))])],
     [raw_payload |-> Txt(<<"GS", "*", "00", "*", "X", "~">>), declared |-> "None",
      output_type |-> "X12_837", meta |-> MetaDict(EmptyDict)]}

AllInputs ==
    [raw_payload : RawPayloads, declared : DeclaredTypes,
     output_type : OutputTypes, meta : Metas]

-----------------------------------------------------------------------------
(* The store: TraceLog and TraceStep tables (logtrace/models.py) *)

Calls == 1..NCalls

\* TraceLog.objects.create(...)
TraceLogCreate(table, id, row) ==
    [x \in (DOMAIN table) \cup {id} |-> IF x = id THEN row ELSE table[x]]

\* faulty variant of TraceStepCreate: the step goes to the log created last, whoever
\* created it
TraceStepCreateLatest(table, log_id, row) ==
    [x \in (DOMAIN table) \cup {nextLogId - 1} |->
        IF x = nextLogId - 1
        THEN (IF x \in DOMAIN table THEN Append(table[x], row) ELSE <<row>>)
        ELSE table[x]]

\* TraceStep.objects.create(trace_log=log, ...)
TraceStepCreate(table, log_id, row) ==
    [x \in (DOMAIN table) \cup {log_id} |->
        IF x = log_id
        THEN (IF log_id \in DOMAIN table THEN Append(table[log_id], row) ELSE <<row>>)
        ELSE table[x]]

\* faulty variant of review_required: the steps are not consulted
ReviewOnFailureOnly(row, log_steps) ==
    row.status = "FAILED" \/ row.error_count > 0

\* TraceLog.review_required of a stored row with its stored steps
review_required(row, log_steps) ==
    \/ row.status = "FAILED"
    \/ row.error_count > 0
    \/ \E i \in 1..Len(log_steps) : log_steps[i].status \in {"WARN", "ERROR"}

\* TraceLog.processing_status of a stored row with its stored steps
processing_status(row, log_steps) ==
    IF row.status = "FAILED" THEN "FAILED_TRANSFORMATION"
    ELSE IF \E i \in 1..Len(log_steps) : log_steps[i].status = "WARN"
    THEN "SUCCESS_WITH_WARNINGS"
    ELSE "SUCCESS"

SaveFields == {"parsed_preview", "error_count", "summary", "duration_ms", "status", "meta"}

\* log.save(update_fields=[...]): the named fields of the instance reach the row
TraceLogSave(table, obj) ==
    [table EXCEPT ![obj.id] =
        [@ EXCEPT !.parsed_preview = obj.parsed_preview,
                  !.error_count = obj.error_count,
                  !.summary = obj.summary,
                  !.duration_set = obj.duration_set,
                  !.status = obj.status,
                  !.meta = obj.meta]]

NoOp == [op |-> "", status |-> "", summary |-> <<>>, error_count |-> 0,
         sequence |-> 0, fields |-> {}]

-----------------------------------------------------------------------------
(* ingest_payload as a process: one atomic action per store operation *)

NoLog ==
    [id |-> 0, trace_id |-> 0, input_type |-> "", output_type |-> "",
     raw_payload |-> <<>>, meta |-> MetaNone, status |-> "", summary |-> <<>>,
     error_count |-> 0, parsed_preview |-> EmptyPreview, duration_set |-> FALSE]

IdleFrame ==
    [pc |-> "idle", raw_payload |-> <<>>, declared |-> "None", output_type |-> "",
     meta |-> MetaNone, input_type |-> "", log |-> NoLog, preview |-> EmptyPreview,
     all_steps |-> <<>>, idx |-> 0, sequence |-> 0, error_count |-> 0]

\* lines 173-231: classify, create the log row, build the timeline in memory
IngestCreate(c, in) ==
    /\ call[c].pc = "idle"
    /\ LET input_type == guess_input_type(in.raw_payload, in.declared)
           row == [id |-> nextLogId, trace_id |-> c, input_type |-> input_type,
                   output_type |-> in.output_type, raw_payload |-> in.raw_payload,
                   meta |-> MetaOrEmpty(in.meta), status |-> "RECEIVED",
                   summary |-> <<T("Received payload")>>, error_count |-> 0,
                   parsed_preview |-> EmptyPreview, duration_set |-> FALSE]
           r == ingest_steps(input_type, in.raw_payload, in.output_type)
       IN /\ logs' = TraceLogCreate(logs, nextLogId, row)
          /\ nextLogId' = nextLogId + 1
          /\ ops' = [ops EXCEPT ![c] =
                        Append(@, [NoOp EXCEPT !.op = "create_log",
                                               !.status = row.status,
                                               !.summary = row.summary,
                                               !.error_count = row.error_count])]
          /\ call' = [call EXCEPT ![c] =
                        [pc |-> "persist", raw_payload |-> in.raw_payload,
                         declared |-> in.declared, output_type |-> in.output_type,
                         meta |-> in.meta, input_type |-> input_type,
                         log |-> [row EXCEPT !.status = r.status],
                         preview |-> r.preview, all_steps |-> r.all_steps,
                         idx |-> 1, sequence |-> 1, error_count |-> 0]]
    /\ UNCHANGED <<steps, x12, hl7, mirth>>

\* faulty variant of ErrorIncrement: every step that is not OK is counted
ErrorIncrementNotOk(status) == IF status # "OK" THEN 1 ELSE 0

\* lines 237-238: what one step adds to error_count
ErrorIncrement(status) == IF status = "ERROR" THEN 1 ELSE 0

\* faulty variant of NextSequence: the increment is lost on the second step
NextSequenceStuck(sequence) == IF sequence = 2 THEN sequence ELSE sequence + 1

\* line 248
NextSequence(sequence) == sequence + 1

\* lines 234-248: one turn of the persist loop (idx is the loop's position
\* in all_steps)
IngestPersistStep(c) ==
    /\ call[c].pc = "persist"
    /\ LET f == call[c]
           st == f.all_steps[f.idx]
           row == [trace_log |-> f.log.id, sequence |-> f.sequence,
                   step_name |-> st.step_name, status |-> st.status,
                   message |-> st.message, details |-> st.details]
       IN /\ steps' = TraceStepCreate(steps, f.log.id, row)
          /\ ops' = [ops EXCEPT ![c] =
                        Append(@, [NoOp EXCEPT !.op = "create_step",
                                               !.status = st.status,
                                               !.sequence = f.sequence])]
          /\ call' = [call EXCEPT ![c] =
                        [f EXCEPT
                           !.error_count = @ + ErrorIncrement(st.status),
                           !.sequence = NextSequence(@),
                           !.idx = @ + 1,
                           !.pc = IF f.idx = Len(f.all_steps)
                                  THEN "finalize" ELSE "persist"]]
    /\ UNCHANGED <<logs, nextLogId, x12, hl7, mirth>>

\* lines 250-282 when the meta normalization goes through: save and return
IngestFinalize(c) ==
    /\ call[c].pc = "finalize"
    /\ LET f == call[c]
           nm == normalize_meta(f.log.meta, f.input_type, f.preview)
           obj == [f.log EXCEPT
                     !.meta = nm.meta,
                     !.parsed_preview = f.preview,
                     !.error_count = f.error_count,
                     !.summary = build_summary(f.input_type, f.preview, f.log.status,
                                               f.error_count),
                     !.duration_set = TRUE]
       IN /\ ~nm.raised
          /\ logs' = TraceLogSave(logs, obj)
          /\ ops' = [ops EXCEPT ![c] =
                        Append(@, [NoOp EXCEPT !.op = "update_log",
                                               !.status = obj.status,
                                               !.summary = obj.summary,
                                               !.error_count = obj.error_count,
                                               !.fields = SaveFields])]
          /\ call' = [call EXCEPT ![c] = [f EXCEPT !.pc = "returned", !.log = obj]]
    /\ UNCHANGED <<steps, nextLogId, x12, hl7, mirth>>

\* line 255 when .strip() meets a value that is no str: the AttributeError
\* leaves ingest_payload before line 280, nothing is saved
IngestRaise(c) ==
    /\ call[c].pc = "finalize"
    /\ normalize_meta(call[c].log.meta, call[c].input_type, call[c].preview).raised
    /\ call' = [call EXCEPT ![c].pc = "raised"]
    /\ UNCHANGED <<logs, steps, nextLogId, ops, x12, hl7, mirth>>

-----------------------------------------------------------------------------
(* example/hl7_utils.py: claim (837) -> remittance (835) -> reconciliation. *)
(* Amounts are integers of cents; float(text) of a text that is not a       *)
(* number is the ValueError, carried as raised = TRUE.                      *)

MaxDollars == 3      \* largest billed total written as whole dollars

W(s) == <<T(s)>>

\* f"A*B*...~"
X12Seg(fields) == JoinWith(fields, <<T("*")>>) \o <<T("~")>>

\* line 421
total == 150

\* a patient resource, as far as fhir_to_837_claim reads it
NoPatient ==
    [identifier |-> <<>>, family |-> <<>>, given |-> <<>>, line1 |-> <<>>,
     city |-> <<>>, state |-> <<>>, postal |-> <<>>]

\* (patient.get("identifier") or [{}])[0].get("value", "12345")
PatientId(patient) ==
    IF patient.identifier = <<>> THEN W("12345") ELSE patient.identifier[1].value

ClaimHeader ==
    << X12Seg(<<W("ISA"), W("00"), W("          "), W("00"), W("          "), W("ZZ"),
                W("SENDERID      "), W("ZZ"), W("RECEIVERID    "), W("250101"),
                W("1200"), W("^"), W("00501"), W("000000001"), W("0"), W("T"), W(":")>>),
       X12Seg(<<W("GS"), W("HC"), W("SENDERID"), W("RECEIVERID"), W("20250101"),
                W("1200"), W("1"), W("X"), W("005010X222A1")>>),
       X12Seg(<<W("ST"), W("837"), W("0001"), W("005010X222A1")>>),
       X12Seg(<<W("BHT"), W("0019"), W("00"), W("0123"), W("20250102"), W("1200"), W("CH")>>),
       X12Seg(<<W("NM1"), W("85"), W("2"), W("GOOD HEALTH CLINIC"), <<>>, <<>>, <<>>,
                <<>>, W("XX"), W("1234567893")>>),
       X12Seg(<<W("N3"), W("123 MAIN ST")>>),
       X12Seg(<<W("N4"), W("DALLAS"), W("TX"), W("75001")>>),
       X12Seg(<<W("HL"), W("1"), <<>>, W("20"), W("1")>>),
       X12Seg(<<W("HL"), W("2"), W("1"), W("22"), W("0")>>),
       X12Seg(<<W("SBR"), W("P"), W("18"), <<>>, <<>>, <<>>, <<>>, <<>>, <<>>, W("MC")>>) >>

ClaimTrailer ==
    << X12Seg(<<W("LX"), W("1")>>),
       X12Seg(<<W("SV1"), W("HC:99213"), <<IntLit(150)>>, W("UN"), W("1"), <<>>, <<>>, W("1")>>),
       X12Seg(<<W("SE"), W("12"), W("0001")>>),
       X12Seg(<<W("GE"), W("1"), W("1")>>),
       X12Seg(<<W("IEA"), W("1"), W("000000001")>>) >>

\* lines 448-453
ClaimSubscriber(patient, claim_id) ==
    << X12Seg(<<W("NM1"), W("IL"), W("1"), patient.family, patient.given, <<>>, <<>>,
                <<>>, W("MI"), PatientId(patient)>>),
       X12Seg(<<W("N3"), patient.line1>>),
       X12Seg(<<W("N4"), patient.city, patient.state, patient.postal>>),
       X12Seg(<<W("CLM"), claim_id, <<IntLit(total)>>, <<>>, <<>>, W("11:B:1"),
                W("Y"), W("A"), W("Y"), W("Y")>>) >>

fhir_to_837_claim(patient, encounter) ==
    JoinWith(ClaimHeader \o ClaimSubscriber(patient, PatientId(patient)) \o ClaimTrailer, LF)

\* float(text), in cents
FloatOf(text) ==
    IF Len(text) = 1 /\ text[1].t = "int" THEN [ok |-> TRUE, cents |-> 100 * text[1].n]
    ELSE IF Len(text) = 1 /\ text[1].t = "dec2" THEN [ok |-> TRUE, cents |-> text[1].n]
    ELSE [ok |-> FALSE, cents |-> 0]

\* float(parts[i]) if len(parts) > i and parts[i] else default
AmountOr(parts, i, default) ==
    IF Len(parts) > i /\ parts[i + 1] # <<>> THEN FloatOf(parts[i + 1])
    ELSE [ok |-> TRUE, cents |-> default]

StripAll(parts) == [i \in 1..Len(parts) |-> Strip(parts[i])]

\* [s.strip() for s in text.replace("\n", "").split("~") if s.strip()]
X12Segments(text) ==
    SelectSeq(StripAll(Split(Remove(text, "\n"), "~")), LAMBDA seg : seg # <<>>)

\* the empty dict returned by parse_837_basic
NoInfo == [empty |-> TRUE, raised |-> FALSE, claim_id |-> <<>>, billed_total |-> 0]

\* lines 644-650
ClmInfo(parts) ==
    [empty |-> FALSE, raised |-> ~AmountOr(parts, 2, 0).ok,
     claim_id |-> FieldOr(parts, 1, <<>>), billed_total |-> AmountOr(parts, 2, 0).cents]

ClmOf(clm) == IF clm = <<>> THEN NoInfo ELSE ClmInfo(Split(clm, "*"))

parse_837_basic(x12_837) ==
    IF x12_837 = <<>> THEN NoInfo
    ELSE ClmOf(FirstLineWith(X12Segments(x12_837), <<"CLM", "*">>))

\* lines 665-666
EffectiveOutcome(outcome) == IF outcome \notin {"paid", "denied"} THEN "paid" ELSE outcome

\* round(billed_total * 0.8, 2)
PaidOf(outcome, billed_total) ==
    IF outcome = "paid" THEN (8 * billed_total + 5) \div 10 ELSE 0

\* round(billed_total - paid, 2)
PatientRespOf(outcome, billed_total) ==
    IF outcome = "paid" THEN billed_total - PaidOf(outcome, billed_total) ELSE 0

\* faulty variant of CasOf: a paid claim gets its adjustment line whatever the
\* patient responsibility
CasOfAlways(outcome, billed_total) ==
    IF outcome = "paid"
    THEN <<X12Seg(<<W("CAS"), W("PR"), W("1"),
                    <<Dec2(PatientRespOf(outcome, billed_total))>>>>)>>
    ELSE <<X12Seg(<<W("CAS"), W("CO"), W("45"), <<Dec2(billed_total)>>>>)>>

\* lines 672, 678
CasOf(outcome, billed_total) ==
    IF outcome = "paid"
    THEN (IF PatientRespOf(outcome, billed_total) > 0
          THEN <<X12Seg(<<W("CAS"), W("PR"), W("1"),
                          <<Dec2(PatientRespOf(outcome, billed_total))>>>>)>>
          ELSE <<>>)
    ELSE <<X12Seg(<<W("CAS"), W("CO"), W("45"), <<Dec2(billed_total)>>>>)>>

ClpStatus(outcome) == IF outcome = "paid" THEN W("1") ELSE W("4")

EraHeader ==
    << X12Seg(<<W("ISA"), W("00"), W("          "), W("00"), W("          "), W("ZZ"),
                W("SENDERID      "), W("ZZ"), W("RECEIVERID    "), W("250101"),
                W("1200"), W("^"), W("00501"), W("000000905"), W("0"), W("T"), W(":")>>),
       X12Seg(<<W("GS"), W("HP"), W("SENDERID"), W("RECEIVERID"), W("20250101"),
                W("1200"), W("1"), W("X"), W("005010X221A1")>>),
       X12Seg(<<W("ST"), W("835"), W("0001")>>),
       X12Seg(<<W("BPR"), W("I"), W("0"), W("C"), W("CHK"), <<>>, <<>>, <<>>, <<>>, <<>>,
                <<>>, <<>>, <<>>, <<>>, <<>>, <<>>, W("20250101")>>),
       X12Seg(<<W("TRN"), W("1"), W("12345"), W("9876543210")>>),
       X12Seg(<<W("N1"), W("PR"), W("DEMO PAYER"), W("PI"), W("99999")>>),
       X12Seg(<<W("N1"), W("PE"), W("GOOD HEALTH CLINIC"), W("XX"), W("1234567893")>>) >>

EraTrailer ==
    << X12Seg(<<W("SE"), W("9"), W("0001")>>),
       X12Seg(<<W("GE"), W("1"), W("1")>>),
       X12Seg(<<W("IEA"), W("1"), W("000000905")>>) >>

\* line 690
ClpSeg(claim_id, outcome, billed_total) ==
    X12Seg(<<W("CLP"), claim_id, ClpStatus(outcome), <<Dec2(billed_total)>>,
             <<Dec2(PaidOf(outcome, billed_total))>>,
             <<Dec2(PatientRespOf(outcome, billed_total))>>,
             W("MC"), W("PCN123"), W("11")>>)

Era835(claim_id, outcome, billed_total) ==
    JoinWith(EraHeader \o <<ClpSeg(claim_id, outcome, billed_total)>>
               \o CasOf(outcome, billed_total) \o EraTrailer, LF)

GenerateFrom(info, outcome) ==
    IF info.raised THEN [raised |-> TRUE, text |-> <<>>]
    ELSE [raised |-> FALSE,
          text |-> Era835(IF info.empty THEN W("UNKNOWN") ELSE info.claim_id,
                          outcome, info.billed_total)]

generate_835_from_837(x12_837, outcome) ==
    GenerateFrom(parse_837_basic(x12_837), EffectiveOutcome(outcome))

\* line 725
StatusOf(status_code) ==
    IF status_code = W("1") THEN "paid"
    ELSE IF status_code = W("4") THEN "denied" ELSE "other"

NoReconciliation ==
    [raised |-> FALSE, claim_id |-> <<>>, status |-> "", billed_total |-> 0,
     paid_amount |-> 0, patient_responsibility |-> 0, adjustments |-> <<>>,
     balance_due_to_provider |-> 0]

\* lines 732-740
Summary(claim_id, status, billed_total, paid, patient_resp, adjustments) ==
    [raised |-> FALSE, claim_id |-> claim_id, status |-> status,
     billed_total |-> billed_total, paid_amount |-> paid,
     patient_responsibility |-> patient_resp, adjustments |-> adjustments,
     balance_due_to_provider |-> Max(billed_total - paid - patient_resp, 0)]

\* lines 717-725: the CLP line overrides the billed total of the claim
WithClp(s_info, parts, adjustments) ==
    IF ~(AmountOr(parts, 3, 0).ok /\ AmountOr(parts, 4, 0).ok /\ AmountOr(parts, 5, 0).ok)
    THEN [NoReconciliation EXCEPT !.raised = TRUE]
    ELSE Summary(s_info.claim_id, StatusOf(FieldOr(parts, 2, <<>>)),
                 AmountOr(parts, 3, s_info.billed_total).cents,
                 AmountOr(parts, 4, 0).cents, AmountOr(parts, 5, 0).cents, adjustments)

\* [s for s in segments if s.startswith("CAS*")]
Adjustments(segments) == SelectSeq(segments, LAMBDA seg : StartsWith(seg, <<"CAS", "*">>))

ReconcileWith(s_info, segments, clp) ==
    IF clp = <<>> THEN Summary(s_info.claim_id, "unknown", s_info.billed_total, 0, 0,
                               Adjustments(segments))
    ELSE WithClp(s_info, Split(clp, "*"), Adjustments(segments))

ReconcileFrom(s_info, x12_835) ==
    IF s_info.raised THEN [NoReconciliation EXCEPT !.raised = TRUE]
    ELSE IF x12_835 = <<>>
         THEN Summary(s_info.claim_id, "unknown", s_info.billed_total, 0, 0, <<>>)
    ELSE ReconcileWith(s_info, X12Segments(x12_835),
                       FirstLineWith(X12Segments(x12_835), <<"CLP", "*">>))

reconcile_837_835(x12_837, x12_835) == ReconcileFrom(parse_837_basic(x12_837), x12_835)

\* patients handed to fhir_to_837_claim: identifiers (none, plain, holding the
\* X12 delimiters), and a family name holding a CLM line
PatientIdValues ==
    { W("999"), <<>>, <<T("123"), T("~"), T("456")>>, <<T("9"), T("*"), T("X")>>,
      <<T("9"), T("*"), IntLit(7)>> }

FamilyNames == { W("DOE"), <<T("O"), T("~"), T("CLM"), T("*"), T("Z"), T("*"), Dec2(5)>> }

Patients ==
    {[NoPatient EXCEPT !.family = fam, !.given = W("JANE")] : fam \in FamilyNames}
    \cup {[NoPatient EXCEPT !.identifier = <<[value |-> v]>>, !.family = fam]
            : v \in PatientIdValues, fam \in FamilyNames}

\* billed totals in whole cents, as written in a CLM line
WholeCentTotals ==
    {<<Dec2(c)>> : c \in 0..MaxCents} \cup {<<IntLit(d)>> : d \in 0..MaxDollars}

\* a claim text with one CLM line
ClaimText(claim_id, amount) ==
    JoinWith(<< X12Seg(<<W("ST"), W("837"), W("0001")>>),
                X12Seg(<<W("CLM"), claim_id, amount, <<>>, <<>>, W("11:B:1")>>),
                X12Seg(<<W("SE"), W("3"), W("0001")>>) >>, LF)

Outcomes == {"paid", "denied", "pending"}

-----------------------------------------------------------------------------
(* example/hl7_utils.py: the HL7 v2 functions.  An absent value (None, "",  *)
(* [] or a missing key) is the empty sequence; a resource that is absent    *)
(* has present = FALSE; an exception leaving a function is raised = TRUE.   *)

\* text.replace("\r\n", "\n").replace("\r", "\n")
NormalizeEol(s) ==
    SelectSeq([i \in 1..Len(s) |->
                  IF s[i].t # "\r" THEN s[i]
                  ELSE IF i < Len(s) /\ s[i + 1].t = "\n" THEN T("") ELSE T("\n")],
              LAMBDA tok : tok.t # "")

\* [line.strip() for line in text.strip().splitlines() if line.strip()]
SegmentLines(hl7_text) ==
    SelectSeq(StripAll(SplitLines(Strip(hl7_text))), LAMBDA ln : ln # <<>>)

\* the segments in message order, each the list of its fields; the dict of the
\* code groups them by parts[0]
parse_hl7(hl7_text) ==
    [i \in 1..Len(SegmentLines(hl7_text)) |-> Split(SegmentLines(hl7_text)[i], "|")]

\* segments.get(name) or []
SegmentsNamed(segments, name) == SelectSeq(segments, LAMBDA parts : parts[1] = W(name))

\* field.split("^")[i] if the field is not empty and has more than i components
Component(field, i) == IF field = <<>> THEN <<>> ELSE FieldOr(Split(field, "^"), i, <<>>)

\* gender_map.get(gender_raw, "unknown")
Gender(gender_raw) ==
    IF gender_raw = W("M") THEN "male" ELSE IF gender_raw = W("F") THEN "female" ELSE "unknown"

\* value or None, as an f-string prints it
NoneOr(text) == IF text = <<>> THEN W("None") ELSE text

\* the empty dict that stands for a missing patient
EmptyPatient ==
    [present |-> FALSE, id |-> <<>>, identifier |-> <<>>, family |-> <<>>, given |-> <<>>,
     gender |-> "", birthDate |-> <<>>, line1 |-> <<>>, city |-> <<>>, state |-> <<>>,
     postal |-> <<>>]

\* lines 288-352, for the first PID segment; birthDate is the dashed rendering
\* of PID-7
PatientOf(pid) ==
    [present |-> TRUE,
     id |-> Component(FieldOr(pid, 3, <<>>), 0),
     identifier |-> IF Component(FieldOr(pid, 3, <<>>), 0) # <<>>
                    THEN <<[value |-> Component(FieldOr(pid, 3, <<>>), 0)]>> ELSE <<>>,
     family |-> Component(FieldOr(pid, 5, <<>>), 0),
     given |-> Component(FieldOr(pid, 5, <<>>), 1),
     gender |-> Gender(FieldOr(pid, 8, <<>>)),
     birthDate |-> IF FieldOr(pid, 7, <<>>) = <<>> THEN <<>>
                   ELSE W("YYYY-MM-DD of ") \o FieldOr(pid, 7, <<>>),
     line1 |-> Component(FieldOr(pid, 11, <<>>), 0),
     city |-> NoneOr(Component(FieldOr(pid, 11, <<>>), 2)),
     state |-> NoneOr(Component(FieldOr(pid, 11, <<>>), 3)),
     postal |-> NoneOr(Component(FieldOr(pid, 11, <<>>), 4))]

hl7_to_fhir_patient(segments) ==
    IF SegmentsNamed(segments, "PID") = <<>> THEN EmptyPatient
    ELSE PatientOf(SegmentsNamed(segments, "PID")[1])

\* words that datetime.strptime reads as a time: with "%Y%m%d%H%M" (the first
\* 12 characters) and with "%Y%m%d%H%M%S"
TimeWords == {"202501011200", "20250101120000", "202512181200"}
IsTime(text) == Len(text) = 1 /\ text[1].t \in TimeWords

\* class_code_map.get(cls, "AMB")
ClassCode(cls) ==
    IF cls = W("I") THEN "IMP" ELSE IF cls = W("E") THEN "EMER" ELSE "AMB"

AbsentEncounter ==
    [present |-> FALSE, raised |-> FALSE, class_code |-> "", subject |-> <<>>,
     start |-> <<>>, location |-> <<>>]

\* lines 360-411, for the first PV1 segment; line 384 raises ValueError
EncounterOf(pv1, patient_id) ==
    IF TextLen(FieldOr(pv1, 44, <<>>)) >= 12 /\ ~IsTime(FieldOr(pv1, 44, <<>>))
    THEN [AbsentEncounter EXCEPT !.raised = TRUE]
    ELSE [present |-> TRUE, raised |-> FALSE,
          class_code |-> ClassCode(FieldOr(pv1, 2, <<>>)),
          subject |-> IF patient_id # <<>> THEN W("Patient/") \o patient_id ELSE <<>>,
          start |-> IF TextLen(FieldOr(pv1, 44, <<>>)) >= 12
                    THEN W("isoformat of ") \o FieldOr(pv1, 44, <<>>) ELSE <<>>,
          location |-> FieldOr(pv1, 3, <<>>)]

hl7_to_fhir_encounter(segments, patient_id) ==
    IF SegmentsNamed(segments, "PV1") = <<>> THEN AbsentEncounter
    ELSE EncounterOf(SegmentsNamed(segments, "PV1")[1], patient_id)

\* the last line that starts with pat, or the empty text
LastLineWith(lines, pat) ==
    IF \E i \in 1..Len(lines) : StartsWith(lines[i], pat)
    THEN lines[CHOOSE i \in 1..Len(lines) :
                   /\ StartsWith(lines[i], pat)
                   /\ \A j \in (i + 1)..Len(lines) : ~StartsWith(lines[j], pat)]
    ELSE <<>>

\* lines 484-490
OruMessageType(msh_fields) ==
    IF FieldOr(msh_fields, 8, <<>>) # <<>> THEN msh_fields[9] ELSE Txt(<<"ORU", "^", "R01">>)

\* "Patient/{patient_id}" if patient_id
PatientRef(patient_id) == IF patient_id # <<>> THEN W("Patient/") \o patient_id ELSE <<>>

\* lines 543-596: the Observation of the idx-th OBX segment
ObservationOf(idx, obx, patient_id, obr) ==
    [id |-> idx,
     code |-> Component(FieldOr(obx, 3, <<>>), 0),
     display |-> Component(FieldOr(obx, 3, <<>>), 1),
     valueString |-> FieldOr(obx, 5, <<>>),
     unit |-> FieldOr(obx, 6, <<>>),
     ref_range |-> FieldOr(obx, 7, <<>>),
     has_note |-> FieldOr(obx, 6, <<>>) # <<>> \/ FieldOr(obx, 7, <<>>) # <<>>,
     subject |-> PatientRef(patient_id),
     effectiveDateTime |-> FieldOr(obr, 7, <<>>)]

\* faulty variant of ReportOf: the report references the first observation only
ReportOfFirst(n, patient_id, obr) ==
    [code |-> Component(FieldOr(obr, 4, <<>>), 0),
     display |-> Component(FieldOr(obr, 4, <<>>), 1),
     result |-> [i \in 1..(IF n > 0 THEN 1 ELSE 0) |-> i],
     subject |-> PatientRef(patient_id),
     effectiveDateTime |-> FieldOr(obr, 7, <<>>)]

\* lines 599-621; result[i] = i stands for "Observation/obx-{i}"
ReportOf(n, patient_id, obr) ==
    [code |-> Component(FieldOr(obr, 4, <<>>), 0),
     display |-> Component(FieldOr(obr, 4, <<>>), 1),
     result |-> [i \in 1..n |-> i],
     subject |-> PatientRef(patient_id),
     effectiveDateTime |-> FieldOr(obr, 7, <<>>)]

NoReport ==
    [code |-> <<>>, display |-> <<>>, result |-> <<>>, subject |-> <<>>,
     effectiveDateTime |-> <<>>]

\* lines 496-629: the last PID and the last OBR win, every OBX is kept
OruFrom(msg_type, patient_id, obr, obx_lines) ==
    [message_type |-> msg_type,
     patient_id |-> patient_id,
     report |-> ReportOf(Len(obx_lines), patient_id, obr),
     observations |-> [i \in 1..Len(obx_lines) |->
                          ObservationOf(i, Split(obx_lines[i], "|"), patient_id, obr)]]

OruOfLines(lines) ==
    OruFrom(OruMessageType(Split(FirstLineWith(lines, <<"MSH">>), "|")),
            FieldOr(Split(LastLineWith(lines, <<"PID">>), "|"), 3, <<>>),
            Split(LastLineWith(lines, <<"OBR">>), "|"),
            SelectSeq(lines, LAMBDA ln : StartsWith(ln, <<"OBX">>)))

hl7_oru_to_fhir(hl7_text) == OruOfLines(SegmentLines(hl7_text))

\* the result dict of hl7_to_all: keys are the keys it has
NoResult ==
    [outcome |-> "", keys |-> {}, error |-> "", message_type |-> <<>>,
     patient |-> EmptyPatient, encounter |-> AbsentEncounter, x12_837 |-> <<>>,
     x12_835 |-> <<>>, claim_reconciliation |-> NoReconciliation,
     patient_id |-> <<>>, report |-> NoReport, observations |-> <<>>]

AdtKeys ==
    {"message_type", "raw_hl7", "patient", "encounter", "x12_837", "x12_835",
     "claim_reconciliation"}

\* faulty variant of AdtReconciled: the reconciliation is left out
AdtUnreconciled(base, x12_837, x12_835) ==
    [base EXCEPT !.x12_837 = x12_837, !.x12_835 = x12_835]

\* line 111
AdtReconciled(base, x12_837, x12_835) ==
    IF reconcile_837_835(x12_837, x12_835).raised THEN [NoResult EXCEPT !.outcome = "raised"]
    ELSE [base EXCEPT !.x12_837 = x12_837, !.x12_835 = x12_835,
                      !.claim_reconciliation = reconcile_837_835(x12_837, x12_835)]

\* line 110
AdtRemitted(base, x12_837, era) ==
    IF era.raised THEN [NoResult EXCEPT !.outcome = "raised"]
    ELSE AdtReconciled(base, x12_837, era.text)

\* lines 107-121
AdtResult(msg_type, patient, encounter) ==
    IF encounter.raised THEN [NoResult EXCEPT !.outcome = "raised"]
    ELSE IF patient.present /\ encounter.present
    THEN AdtRemitted([NoResult EXCEPT !.outcome = "adt", !.keys = AdtKeys,
                                      !.message_type = msg_type, !.patient = patient,
                                      !.encounter = encounter],
                     fhir_to_837_claim(patient, encounter),
                     generate_835_from_837(fhir_to_837_claim(patient, encounter), "paid"))
    ELSE [NoResult EXCEPT !.outcome = "adt", !.keys = AdtKeys, !.message_type = msg_type,
                          !.patient = patient, !.encounter = encounter]

\* lines 86-91
AdtOf(msg_type, patient, segments) ==
    AdtResult(msg_type, patient, hl7_to_fhir_encounter(segments, patient.id))

\* lines 124-127
OruResult(oru) ==
    [NoResult EXCEPT !.outcome = "oru",
                     !.keys = {"message_type", "raw_hl7", "patient_id", "report",
                               "observations"},
                     !.message_type = oru.message_type, !.patient_id = oru.patient_id,
                     !.report = oru.report, !.observations = oru.observations]

\* lines 78-135
Hl7Dispatch(msg_type, hl7_text) ==
    IF msg_type = <<>>
    THEN [NoResult EXCEPT !.outcome = "unknown_type", !.keys = {"error", "raw_hl7"},
             !.error = "Unable to determine HL7 message type (MSH-9 missing)."]
    ELSE IF StartsWith(msg_type, <<"ADT">>)
    THEN AdtOf(msg_type, hl7_to_fhir_patient(parse_hl7(hl7_text)), parse_hl7(hl7_text))
    ELSE IF StartsWith(msg_type, <<"ORU">>) THEN OruResult(hl7_oru_to_fhir(hl7_text))
    ELSE [NoResult EXCEPT !.outcome = "unsupported",
             !.keys = {"error", "message_type", "raw_hl7"},
             !.error = "Unsupported HL7 message type", !.message_type = msg_type]

\* lines 67-76: MSH-9 of the first line of split("\n") that starts with MSH
AllMessageType(lines) == FieldOr(Split(FirstLineWith(lines, <<"MSH">>), "|"), 8, <<>>)

hl7_to_all(hl7_text) ==
    Hl7Dispatch(AllMessageType(Split(Strip(hl7_text), "\n")), hl7_text)

\* lines 244-253: the checks of an ADT message
AdtErrors(segments) ==
    IF SegmentsNamed(segments, "PID") = <<>> THEN <<"ADT requires PID segment">>
    ELSE IF FieldOr(SegmentsNamed(segments, "PID")[1], 3, <<>>) = <<>>
    THEN <<"Missing PID-3 (Patient Identifier)">>
    ELSE <<>>

AdtWarnings(segments) ==
    IF SegmentsNamed(segments, "PV1") = <<>>
    THEN <<"Missing PV1 segment (Encounter will not be generated)">>
    ELSE <<>>

\* lines 240-255
ValidateTyped(segments, msg_type) ==
    [errors |-> (IF msg_type = <<>> THEN <<"Missing MSH-9 (message type)">> ELSE <<>>)
                  \o (IF StartsWith(msg_type, <<"ADT">>) THEN AdtErrors(segments) ELSE <<>>),
     warnings |-> IF StartsWith(msg_type, <<"ADT">>) THEN AdtWarnings(segments) ELSE <<>>]

\* lines 238-240: msh = (segments.get("MSH") or [["MSH"]])[0]
ValidateSegments(segments) ==
    ValidateTyped(segments,
                  FieldOr(IF SegmentsNamed(segments, "MSH") = <<>> THEN <<W("MSH")>>
                          ELSE SegmentsNamed(segments, "MSH")[1], 8, <<>>))

\* faulty variant of validate_hl7_message: the header check does not return
ValidateUnguarded(hl7_text) == ValidateSegments(parse_hl7(hl7_text))

validate_hl7_message(hl7_text) ==
    IF ~StartsWith(Strip(hl7_text), <<"MSH">>)
    THEN [errors |-> <<"Missing MSH segment (message must start with MSH)">>,
          warnings |-> <<>>]
    ELSE ValidateSegments(parse_hl7(hl7_text))

\* lines 155-159: the fields of every line that is not blank, line ends
\* normalized
SummaryLines(hl7_text) ==
    [i \in 1..Len(SelectSeq(Split(NormalizeEol(hl7_text), "\n"),
                            LAMBDA ln : Strip(ln) # <<>>)) |->
        Split(SelectSeq(Split(NormalizeEol(hl7_text), "\n"),
                        LAMBDA ln : Strip(ln) # <<>>)[i], "|")]

\* the lines of a segment with more than min_len fields
SummaryIndex(fl, name, min_len) ==
    {i \in 1..Len(fl) : fl[i][1] = W(name) /\ Len(fl[i]) > min_len}

\* the lines whose timestamp strptime("%Y%m%d%H%M%S") reads: MSH-7, PV1-44
SummaryTimes(fl) ==
    {i \in SummaryIndex(fl, "MSH", 8) : IsTime(fl[i][7])}
    \cup {i \in SummaryIndex(fl, "PV1", 44) : IsTime(fl[i][45])}

LastIn(S) == CHOOSE i \in S : \A j \in S : j <= i

\* lines 158-191: every line is scanned, a later line overwrites
SummaryOf(fl) ==
    [message_type |-> IF SummaryIndex(fl, "MSH", 8) = {} THEN <<>>
                      ELSE fl[LastIn(SummaryIndex(fl, "MSH", 8))][9],
     patient_id |-> IF SummaryIndex(fl, "PID", 3) = {} THEN <<>>
                    ELSE fl[LastIn(SummaryIndex(fl, "PID", 3))][4],
     patient_class |-> IF SummaryIndex(fl, "PV1", 2) = {} THEN <<>>
                       ELSE fl[LastIn(SummaryIndex(fl, "PV1", 2))][3],
     encounter_present |-> SummaryIndex(fl, "PV1", 0) # {},
     event_time |-> IF SummaryTimes(fl) = {} THEN <<>>
                    ELSE IF fl[LastIn(SummaryTimes(fl))][1] = W("MSH")
                    THEN fl[LastIn(SummaryTimes(fl))][7]
                    ELSE fl[LastIn(SummaryTimes(fl))][45]]

extract_hl7_summary(hl7_text) ==
    IF hl7_text = <<>> THEN SummaryOf(<<>>) ELSE SummaryOf(SummaryLines(hl7_text))

-----------------------------------------------------------------------------
(* HL7 messages given to the functions of example/hl7_utils.py *)

MaxSegmentFields == 46   \* fields of the longest PV1 segment (PV1-44 is parts[44])

MSH_type_last ==
    Seg(<<Txt(<<"MSH">>), Txt(<<"^~\\&">>), Txt(<<"MIRTH">>), Txt(<<"SENDING">>),
          Txt(<<"RECV">>), Txt(<<"FAC">>), Txt(<<"202512181200">>), <<>>,
          Txt(<<"ADT", "^", "A01">>)>>)
MSH_notype ==
    Seg(<<Txt(<<"MSH">>), Txt(<<"^~\\&">>), Txt(<<"MIRTH">>), Txt(<<"SENDING">>),
          Txt(<<"RECV">>), Txt(<<"FAC">>), Txt(<<"202512181200">>), <<>>, <<>>>>)
MSH_oru ==
    Seg(<<Txt(<<"MSH">>), Txt(<<"^~\\&">>), Txt(<<"LAB">>), Txt(<<"SENDING">>),
          Txt(<<"RECV">>), Txt(<<"FAC">>), Txt(<<"20250101120000">>), <<>>,
          Txt(<<"ORU", "^", "R01">>), Txt(<<"MSG2">>)>>)
MSH_siu ==
    Seg(<<Txt(<<"MSH">>), Txt(<<"^~\\&">>), Txt(<<"MIRTH">>), Txt(<<"SENDING">>),
          Txt(<<"RECV">>), Txt(<<"FAC">>), <<>>, <<>>, Txt(<<"SIU", "^", "S12">>),
          Txt(<<"MSG3">>)>>)

PID_male ==
    Seg(<<Txt(<<"PID">>), Txt(<<"1">>), <<>>, Txt(<<"12345", "^", "^", "^", "MRN">>), <<>>,
          Txt(<<"DOE", "^", "JOHN">>), <<>>, Txt(<<"19800101">>), Txt(<<"M">>), <<>>, <<>>,
          Txt(<<"123 MAIN ST", "^", "^", "ALLEN", "^", "TX", "^", "75013">>)>>)
PID_mrn_only ==
    Seg(<<Txt(<<"PID">>), Txt(<<"1">>), <<>>, Txt(<<"^", "^", "^", "MRN">>), <<>>,
          Txt(<<"DOE", "^", "JANE">>)>>)
PID_adtname ==
    Seg(<<Txt(<<"PID">>), Txt(<<"1">>), <<>>, Txt(<<"9">>), <<>>, Txt(<<"ADT", "^", "JO">>),
          <<>>, Txt(<<"19800101">>), Txt(<<"U">>)>>)
PID_star ==
    Seg(<<Txt(<<"PID">>), Txt(<<"1">>), <<>>,
          <<T("9"), T("*"), IntLit(7), T("^"), T("^"), T("^"), T("MRN")>>, <<>>,
          Txt(<<"ROE", "^", "JANE">>), <<>>, Txt(<<"19900101">>), Txt(<<"F">>)>>)
PID_bare == Txt(<<"PID">>)

\* a PV1 segment of n fields with the class in PV1-2 and the admission time
\* last
PV1_with(cls, n, admit) ==
    Seg([i \in 1..n |-> IF i = 1 THEN Txt(<<"PV1">>) ELSE IF i = 3 THEN cls
                        ELSE IF i = n /\ n > 3 THEN admit ELSE <<>>])
PV1_bare == Txt(<<"PV1">>)

HeaderSegments == {MSH_full, MSH_type_last, MSH_notype, MSH_nofac, MSH_oru, MSH_siu}

PidSegments == {PID_good, PID_male, PID_mrn_only, PID_adtname, PID_star, PID_bare}

Pv1Segments ==
    {PV1_inpatient, PV1_bare,
     PV1_with(Txt(<<"E">>), MaxSegmentFields - 1, Txt(<<"202501011200">>)),
     PV1_with(Txt(<<"O">>), MaxSegmentFields - 1, Txt(<<"ABCDEFGHIJKL">>)),
     PV1_with(Txt(<<"X">>), MaxSegmentFields, Txt(<<"20250101120000">>))}

OBR_panel ==
    Seg(<<Txt(<<"OBR">>), Txt(<<"1">>), <<>>, Txt(<<"ORD1">>), Txt(<<"24323-8", "^", "CMP">>),
          <<>>, <<>>, Txt(<<"202501011200">>)>>)
OBX_glucose ==
    Seg(<<Txt(<<"OBX">>), Txt(<<"1">>), Txt(<<"NM">>), Txt(<<"2345-7", "^", "GLUCOSE">>), <<>>,
          Txt(<<"98">>), Txt(<<"mg/dL">>), Txt(<<"70-99">>), Txt(<<"N">>)>>)
OBX_short == Seg(<<Txt(<<"OBX">>), Txt(<<"2">>), Txt(<<"ST">>)>>)
OBR_lipid ==
    Seg(<<Txt(<<"OBR">>), Txt(<<"2">>), <<>>, Txt(<<"ORD2">>), Txt(<<"57698-3", "^", "LIPID">>),
          <<>>, <<>>, Txt(<<"202512181200">>)>>)

\* segment lists: a header alone, with a PID, with a PV1, with both; no header
\* at all; two PID and two PV1 segments; lab results; a blank line and an
\* indented segment
SegmentLists ==
    {<<msh>> : msh \in HeaderSegments}
    \cup {<<msh, pid>> : msh \in {MSH_full, MSH_type_last, MSH_notype, MSH_nofac},
                         pid \in PidSegments}
    \cup {<<msh, pv1>> : msh \in {MSH_full, MSH_type_last}, pv1 \in Pv1Segments}
    \cup {<<MSH_full, pid, pv1>> : pid \in PidSegments, pv1 \in Pv1Segments}
    \cup {<<MSH_type_last, PID_male, pv1>> : pv1 \in {PV1_inpatient, PV1_bare}}
    \cup {<<MSH_nofac, PID_adtname, PV1_inpatient>>}
    \cup { <<PID_male, PV1_inpatient>>, <<PID_male, MSH_full, PV1_inpatient>>,
           <<Txt(<<"EVN">>), PID_good>>,
           <<Txt(<<"EVN">>), MSH_full>>,
           <<PV1_with(Txt(<<"E">>), MaxSegmentFields - 1, Txt(<<"202501011200">>)),
             MSH_full, PID_good>>,
           <<MSH_full, PV1_with(Txt(<<"E">>), MaxSegmentFields - 1, Txt(<<"202501011200">>)),
             MSH_type_last>>,
           <<MSH_full, PID_male, PID_good, PV1_inpatient, PV1_bare>>,
           <<MSH_full, MSH_oru, PID_good, PV1_inpatient>>,
           <<MSH_oru, PID_good, OBR_panel, OBX_glucose, OBX_short>>,
           <<MSH_oru, OBX_glucose>>,
           <<MSH_oru, PID_male, OBR_panel, OBX_glucose, PID_good, OBR_lipid, OBX_short>>,
           <<MSH_oru, PID_good, OBR_panel>>,
           <<MSH_full, <<>>, <<T(" ")>> \o PID_male, PV1_inpatient>> }

\* line terminators: LF, CR, CRLF
Terminators == {LF, CR, CR \o LF}

\* the messages, the last segment terminated or not
Hl7Messages ==
    {Msg(segs, eol) : segs \in SegmentLists, eol \in Terminators}
    \cup {Msg(<<MSH_full, PID_male, PV1_inpatient>>, eol) \o eol : eol \in Terminators}
    \cup {<<>>, <<T(" "), T("\n")>>}

\* the frame of the HL7 functions: the message, what each function returned,
\* and the calls of hl7_to_all made so far
Hl7Idle ==
    [pc |-> "idle", hl7_text |-> <<>>, validation |-> [errors |-> <<>>, warnings |-> <<>>],
     summary |-> SummaryOf(<<>>), patient |-> EmptyPatient, encounter |-> AbsentEncounter,
     result |-> NoResult, calls |-> <<>>]

-----------------------------------------------------------------------------
(* example/views.py: MirthHL7View.post.  A request is its authentication   *)
(* outcome (the error text of validate_mirth_jwt, "" when the token is      *)
(* accepted), its content type (JSON or not) and its body: kind "text" is a  *)
(* body that json.loads rejects, kind "object" a JSON object with the        *)
(* members d and the source_context member ctx, kind "array" any other JSON  *)
(* document.                                                                 *)

MSH_noapp ==
    Seg(<<Txt(<<"MSH">>), Txt(<<"^~\\&">>), <<>>, Txt(<<"SENDING">>),
          Txt(<<"RECV">>), Txt(<<"FAC">>), Txt(<<"20250101120000">>), <<>>,
          Txt(<<"ADT", "^", "A01">>), Txt(<<"MSG4">>)>>)

MirthTexts ==
    { Msg(<<MSH_full, PID_good, PV1_inpatient>>, LF),
      Msg(<<MSH_full, PID_male, PV1_inpatient>>, CR),
      Msg(<<MSH_full, PID_male,
            PV1_with(Txt(<<"O">>), MaxSegmentFields - 1, Txt(<<"ABCDEFGHIJKL">>))>>, LF),
      Msg(<<MSH_full>>, LF),
      Msg(<<MSH_nofac, PID_good>>, LF),
      Msg(<<MSH_noapp, PID_good, PV1_inpatient>>, CR \o LF),
      Msg(<<MSH_siu>>, LF),
      Msg(<<MSH_oru, PID_good, OBR_panel, OBX_glucose, OBX_short>>, CR),
      Msg(<<PID_male, PV1_inpatient>>, LF),
      Msg(<<MSH_type_last, PID_mrn_only>>, LF),
      <<T(" "), T("\n")>>,
      <<>> }

TextBody(text) == [kind |-> "text", text |-> text, d |-> EmptyDict, ctx |-> MetaNone]
ObjectBody(d, ctx) == [kind |-> "object", text |-> <<>>, d |-> d, ctx |-> ctx]
ArrayBody == [kind |-> "array", text |-> <<>>, d |-> EmptyDict, ctx |-> MetaNone]

EpicContext ==
    MetaDict(DictSet(DictSet(EmptyDict, "sending_application", VStr(W("EPIC"))),
                     "sending_facility", VStr(W("MAIN"))))

MirthBodies ==
    {TextBody(text) : text \in MirthTexts}
    \cup {ObjectBody(DictSet(EmptyDict, "hl7_message", VStr(text)), MetaNone) :
             text \in MirthTexts}
    \cup {ObjectBody(DictSet(EmptyDict, "hl7_message", VStr(text)), ctx) :
             text \in {Msg(<<MSH_noapp, PID_good, PV1_inpatient>>, CR \o LF),
                       Msg(<<MSH_full>>, LF)},
             ctx \in {EpicContext, MetaList}}
    \cup { ObjectBody(DictSet(EmptyDict, "hl7", VStr(Msg(<<MSH_full, PID_male, PV1_inpatient>>, CR))),
                      MetaNone),
           ObjectBody(DictSet(DictSet(EmptyDict, "hl7_message", VInt(0)), "hl7",
                              VStr(Msg(<<MSH_full>>, LF))), MetaNone),
           ObjectBody(DictSet(EmptyDict, "hl7_message", VInt(5)), MetaNone),
           ObjectBody(EmptyDict, MetaNone),
           ArrayBody }

AuthErrors == {"", "Missing or invalid Authorization header", "JWT has expired"}

\* a raw body under any content type, a JSON body under the JSON content type
MirthRequests ==
    {[jwt_err |-> "", json |-> json, body |-> body] :
        json \in BOOLEAN, body \in {TextBody(text) : text \in MirthTexts}}
    \cup {[jwt_err |-> "", json |-> TRUE, body |-> body] : body \in MirthBodies}
    \cup {[jwt_err |-> e, json |-> FALSE,
           body |-> TextBody(Msg(<<MSH_full, PID_good, PV1_inpatient>>, LF))] :
             e \in AuthErrors}

NoResponse == [status_code |-> 0, status |-> "", errors |-> <<>>, warnings |-> <<>>]

\* the frame of MirthHL7View.post, the HL7MessageLog table, and the number of
\* calls of hl7_to_all the request made
MirthIdle ==
    [pc |-> "idle",
     request |-> [jwt_err |-> "", json |-> FALSE, body |-> TextBody(<<>>)],
     hl7_message |-> <<>>, normalized |-> <<>>, errors |-> <<>>, warn_list |-> <<>>,
     summary |-> SummaryOf(<<>>),
     source_context |-> [sending_application |-> <<>>, sending_facility |-> <<>>],
     steps |-> <<>>, result |-> NoResult, response |-> NoResponse,
     logs |-> <<>>, transforms |-> 0]

X12Idle ==
    [pc |-> "idle", from_fhir |-> FALSE, patient |-> NoPatient, x12_837 |-> <<>>,
     outcome |-> "", x12_835 |-> <<>>, reconciliation |-> NoReconciliation]

Init ==
    /\ logs = [x \in {} |-> NoLog]
    /\ steps = [x \in {} |-> <<>>]
    /\ nextLogId = 1
    /\ call = [c \in Calls |-> IdleFrame]
    /\ ops = [c \in Calls |-> <<>>]
    /\ x12 = X12Idle
    /\ hl7 = Hl7Idle
    /\ mirth = MirthIdle

\* one invocation, every input
Next ==
    \/ \E in \in AllInputs : IngestCreate(1, in)
    \/ IngestPersistStep(1)
    \/ IngestFinalize(1)
    \/ IngestRaise(1)

Spec == Init /\ [][Next]_vars

\* concurrent invocations, interleaved at the store operations
NextConc ==
    \E c \in Calls :
        \/ \E in \in ConcInputs : IngestCreate(c, in)
        \/ IngestPersistStep(c)
        \/ IngestFinalize(c)
        \/ IngestRaise(c)

SpecConc == Init /\ [][NextConc]_vars

-----------------------------------------------------------------------------
(* The X12 chain as a process: claim, remittance, reconciliation *)

\* x12_837 = fhir_to_837_claim(patient, encounter)
X12ClaimFromFhir(patient) ==
    /\ x12.pc = "idle"
    /\ x12' = [X12Idle EXCEPT !.pc = "claim", !.from_fhir = TRUE, !.patient = patient,
                              !.x12_837 = fhir_to_837_claim(patient, "Encounter")]
    /\ UNCHANGED <<logs, steps, nextLogId, call, ops, hl7, mirth>>

\* a claim text from elsewhere
X12ClaimGiven(claim_id, amount) ==
    /\ x12.pc = "idle"
    /\ x12' = [X12Idle EXCEPT !.pc = "claim", !.x12_837 = ClaimText(claim_id, amount)]
    /\ UNCHANGED <<logs, steps, nextLogId, call, ops, hl7, mirth>>

\* x12_835 = generate_835_from_837(x12_837, outcome)
X12Generate(outcome) ==
    /\ x12.pc = "claim"
    /\ x12' = [x12 EXCEPT
                 !.pc = IF generate_835_from_837(x12.x12_837, outcome).raised
                        THEN "raised" ELSE "remitted",
                 !.outcome = outcome,
                 !.x12_835 = generate_835_from_837(x12.x12_837, outcome).text]
    /\ UNCHANGED <<logs, steps, nextLogId, call, ops, hl7, mirth>>

\* reconciliation = reconcile_837_835(x12_837, x12_835)
X12Reconcile ==
    /\ x12.pc = "remitted"
    /\ x12' = [x12 EXCEPT
                 !.pc = IF reconcile_837_835(x12.x12_837, x12.x12_835).raised
                        THEN "raised" ELSE "reconciled",
                 !.reconciliation = reconcile_837_835(x12.x12_837, x12.x12_835)]
    /\ UNCHANGED <<logs, steps, nextLogId, call, ops, hl7, mirth>>

\* claim and remittance texts from elsewhere, for reconcile_837_835 alone
GivenClaims ==
    { <<>>,
      JoinWith(<<X12Seg(<<W("ST"), W("837"), W("0001")>>)>>, LF),
      ClaimText(W("A1"), <<Dec2(0)>>),
      ClaimText(W("A1"), <<Dec2(100)>>),
      ClaimText(W("A1"), <<IntLit(150)>>),
      ClaimText(W("A1"), <<>>),
      ClaimText(W("A1"), W("X")),
      JoinWith(<<X12Seg(<<W("CLM"), W("B2")>>)>>, LF) }

GivenRemittances ==
    { <<>>,
      LF,
      JoinWith(<<X12Seg(<<W("ST"), W("835"), W("0001")>>),
                 X12Seg(<<W("CAS"), W("CO"), W("45"), <<Dec2(100)>>>>)>>, LF),
      JoinWith(<<X12Seg(<<W("CLP")>>), X12Seg(<<W("SE"), W("2"), W("0001")>>)>>, LF),
      JoinWith(<<X12Seg(<<W("CLP"), W("A1"), W("1"), <<Dec2(100)>>, <<Dec2(90)>>,
                          <<Dec2(50)>>, W("MC")>>)>>, LF),
      JoinWith(<<X12Seg(<<W("CLP"), W("A1"), W("1"), <<Dec2(200)>>, <<Dec2(100)>>,
                          <<Dec2(25)>>, W("MC")>>),
                 X12Seg(<<W("CAS"), W("PR"), W("1"), <<Dec2(25)>>>>),
                 X12Seg(<<W("CAS"), W("CO"), W("45"), <<Dec2(75)>>>>)>>, LF),
      JoinWith(<<X12Seg(<<W("CLP"), W("A1"), W("4"), <<>>, <<Dec2(0)>>, <<Dec2(0)>>>>)>>, LF),
      JoinWith(<<X12Seg(<<W("CLP"), W("A1"), W("2")>>)>>, LF),
      JoinWith(<<X12Seg(<<W("CLP"), W("A1"), W("1"), W("X"), <<Dec2(0)>>>>)>>, LF),
      Era835(W("A1"), "paid", 15000),
      Era835(W("A1"), "denied", 100) }

\* the two texts are given to reconcile_837_835
X12TextsGiven(x12_837, x12_835) ==
    /\ x12.pc = "idle"
    /\ x12' = [X12Idle EXCEPT !.pc = "remitted", !.x12_837 = x12_837, !.x12_835 = x12_835]
    /\ UNCHANGED <<logs, steps, nextLogId, call, ops, hl7, mirth>>

NextReconcile ==
    \/ \E x12_837 \in GivenClaims, x12_835 \in GivenRemittances :
          X12TextsGiven(x12_837, x12_835)
    \/ X12Reconcile

SpecReconcile == Init /\ [][NextReconcile]_vars

NextX12 ==
    \/ \E patient \in Patients : X12ClaimFromFhir(patient)
    \/ \E amount \in WholeCentTotals : X12ClaimGiven(W("A1"), amount)
    \/ \E outcome \in Outcomes : X12Generate(outcome)
    \/ X12Reconcile

SpecX12 == Init /\ [][NextX12]_vars

-----------------------------------------------------------------------------
(* The functions of example/hl7_utils.py applied to one message *)

\* hl7_text arrives
Hl7Receive(hl7_text) ==
    /\ hl7.pc = "idle"
    /\ hl7' = [hl7 EXCEPT !.pc = "received", !.hl7_text = hl7_text]
    /\ UNCHANGED <<logs, steps, nextLogId, call, ops, x12, mirth>>

\* errors, warnings = validate_hl7_message(hl7_text)
Hl7Validate ==
    /\ hl7.pc = "received"
    /\ hl7' = [hl7 EXCEPT !.pc = "validated", !.validation = validate_hl7_message(hl7.hl7_text)]
    /\ UNCHANGED <<logs, steps, nextLogId, call, ops, x12, mirth>>

\* summary = extract_hl7_summary(hl7_text)
Hl7Summarize ==
    /\ hl7.pc = "validated"
    /\ hl7' = [hl7 EXCEPT !.pc = "summarized", !.summary = extract_hl7_summary(hl7.hl7_text)]
    /\ UNCHANGED <<logs, steps, nextLogId, call, ops, x12, mirth>>

\* patient = hl7_to_fhir_patient(parse_hl7(hl7_text))
Hl7ToPatient ==
    /\ hl7.pc = "summarized"
    /\ hl7' = [hl7 EXCEPT !.pc = "patient",
                          !.patient = hl7_to_fhir_patient(parse_hl7(hl7.hl7_text))]
    /\ UNCHANGED <<logs, steps, nextLogId, call, ops, x12, mirth>>

\* encounter = hl7_to_fhir_encounter(parse_hl7(hl7_text), patient.get("id"))
Hl7ToEncounter ==
    /\ hl7.pc = "patient"
    /\ hl7' = [hl7 EXCEPT !.pc = "encounter",
                          !.encounter = hl7_to_fhir_encounter(parse_hl7(hl7.hl7_text),
                                                              hl7.patient.id)]
    /\ UNCHANGED <<logs, steps, nextLogId, call, ops, x12, mirth>>

\* result = hl7_to_all(hl7_text)
Hl7ToAll ==
    /\ hl7.pc = "encounter"
    /\ hl7' = [hl7 EXCEPT !.pc = "done", !.result = hl7_to_all(hl7.hl7_text)]
    /\ UNCHANGED <<logs, steps, nextLogId, call, ops, x12, mirth>>

NextHl7 ==
    \/ \E hl7_text \in Hl7Messages : Hl7Receive(hl7_text)
    \/ Hl7Validate
    \/ Hl7Summarize
    \/ Hl7ToPatient
    \/ Hl7ToEncounter
    \/ Hl7ToAll

SpecHl7 == Init /\ [][NextHl7]_vars

-----------------------------------------------------------------------------
(* example/views.py: MirthHL7View.post *)

\* HL7MessageLog.objects.create(...); message_profile and trigger_event are
\* renderings of message_type, trace_id is a fresh uuid
LogRow(status, category, error_message, ss, f) ==
    [processing_status |-> status, error_category |-> category,
     error_message |-> error_message, steps |-> ss,
     message_type |-> f.summary.message_type, raw_hl7 |-> f.normalized,
     source_context |-> f.source_context,
     patient_id |-> <<>>, encounter_present |-> FALSE, patient_class |-> <<>>,
     event_time |-> <<>>, has_x12 |-> FALSE]

Step(sequence, step, status) == [sequence |-> sequence, step |-> step, status |-> status]

\* lines 370-384: authentication; a rejected token is logged and answered 403
MirthAuth(request) ==
    /\ mirth.pc = "idle"
    /\ mirth' =
         IF request.jwt_err # ""
         THEN [mirth EXCEPT
                 !.pc = "done", !.request = request,
                 !.logs = Append(@, LogRow("FAILED", "AUTH", <<request.jwt_err>>,
                                           <<Step(1, "AUTH", "ERROR")>>, MirthIdle)),
                 !.response = [NoResponse EXCEPT !.status_code = 403,
                                                 !.errors = <<request.jwt_err>>]]
         ELSE [mirth EXCEPT !.pc = "read", !.request = request]
    /\ UNCHANGED <<logs, steps, nextLogId, call, ops, x12, hl7>>

\* lines 397-407: data.get("hl7_message") or data.get("hl7") or ""
MessageOf(d) == Or(Or(DictGet(d, "hl7_message"), DictGet(d, "hl7")), VStr(<<>>))

\* lines 395-410: the text of the message; data.get on a JSON array or
\* scalar, and .strip() on a member that is not a string, raise
\* AttributeError
ReadMessage(request) ==
    IF ~request.json THEN [raised |-> FALSE, hl7_message |-> Strip(request.body.text)]
    ELSE IF request.body.kind = "text"
    THEN [raised |-> FALSE, hl7_message |-> Strip(request.body.text)]
    ELSE IF request.body.kind = "array" THEN [raised |-> TRUE, hl7_message |-> <<>>]
    ELSE IF MessageOf(request.body.d).ty # "str" THEN [raised |-> TRUE, hl7_message |-> <<>>]
    ELSE [raised |-> FALSE, hl7_message |-> MessageOf(request.body.d).s]

\* lines 395-417: the body is read, the RECEIVED step appended and the line
\* ends normalized
MirthRead ==
    /\ mirth.pc = "read"
    /\ mirth' =
         IF ReadMessage(mirth.request).raised
         THEN [mirth EXCEPT !.pc = "raised",
                            !.response = [NoResponse EXCEPT !.status_code = 500]]
         ELSE [mirth EXCEPT !.pc = "validate",
                            !.hl7_message = ReadMessage(mirth.request).hl7_message,
                            !.steps = <<Step(1, "RECEIVED", "OK")>>,
                            !.normalized = NormalizeEol(ReadMessage(mirth.request).hl7_message)]
    /\ UNCHANGED <<logs, steps, nextLogId, call, ops, x12, hl7>>

\* extract_source_context_from_msh: MSH-3 and MSH-4 of the first MSH line
MshContext(fields) ==
    [sending_application |-> FieldOr(fields, 2, <<>>),
     sending_facility |-> FieldOr(fields, 3, <<>>)]

extract_source_context_from_msh(hl7_text) ==
    MshContext(Split(FirstLineWith(SelectSeq(Split(NormalizeEol(hl7_text), "\n"),
                                             LAMBDA ln : Strip(ln) # <<>>),
                                   <<"MSH">>), "|"))

\* lines 425-430: line 427 reads data, which is bound only when json.loads
\* returned (an empty body is read as {})
DataUnbound(request) ==
    request.json /\ request.body.kind = "text" /\ Strip(request.body.text) # <<>>

\* {**msh_ctx, **incoming_source_context}, incoming a dict or replaced by {}
MergedContext(msh_ctx, ctx) ==
    [k \in DOMAIN msh_ctx |->
        IF ctx.ty = "dict" /\ k \in DOMAIN ctx.d THEN ctx.d[k].s ELSE msh_ctx[k]]

\* lines 419-440: validation, summary and source context; the read of the
\* unbound data raises UnboundLocalError after the validation has returned
MirthValidate ==
    /\ mirth.pc = "validate"
    /\ mirth' =
         IF DataUnbound(mirth.request)
         THEN [mirth EXCEPT !.pc = "raised",
                            !.errors = validate_hl7_message(mirth.normalized).errors,
                            !.warn_list = validate_hl7_message(mirth.normalized).warnings,
                            !.summary = extract_hl7_summary(mirth.normalized),
                            !.response = [NoResponse EXCEPT !.status_code = 500]]
         ELSE [mirth EXCEPT
                 !.pc = "validated",
                 !.errors = validate_hl7_message(mirth.normalized).errors,
                 !.warn_list = validate_hl7_message(mirth.normalized).warnings,
                 !.summary = extract_hl7_summary(mirth.normalized),
                 !.source_context =
                     MergedContext(extract_source_context_from_msh(mirth.normalized),
                                   mirth.request.body.ctx)]
    /\ UNCHANGED <<logs, steps, nextLogId, call, ops, x12, hl7>>

\* lines 442-476: the message is rejected
MirthReject ==
    /\ mirth.pc = "validated"
    /\ mirth.errors # <<>>
    /\ mirth' =
         [mirth EXCEPT
            !.pc = "done",
            !.steps = Append(@, Step(2, "VALIDATION", "ERROR")),
            !.logs = Append(@, LogRow("FAILED", "VALIDATION", mirth.errors,
                                      Append(mirth.steps, Step(2, "VALIDATION", "ERROR")),
                                      mirth)),
            !.response = [status_code |-> 400, status |-> "failed",
                          errors |-> mirth.errors, warnings |-> mirth.warn_list]]
    /\ UNCHANGED <<logs, steps, nextLogId, call, ops, x12, hl7>>

\* lines 478-487: hl7_to_all is called; what it raises leaves the view
MirthTransform ==
    /\ mirth.pc = "validated"
    /\ mirth.errors = <<>>
    /\ mirth' =
         IF hl7_to_all(mirth.normalized).outcome = "raised"
         THEN [mirth EXCEPT !.pc = "raised", !.transforms = @ + 1,
                            !.steps = Append(@, Step(2, "VALIDATION", "OK")),
                            !.response = [NoResponse EXCEPT !.status_code = 500]]
         ELSE [mirth EXCEPT !.pc = "transformed", !.transforms = @ + 1,
                            !.result = hl7_to_all(mirth.normalized),
                            !.steps = @ \o <<Step(2, "VALIDATION", "OK"),
                                             Step(3, "TRANSFORM", "OK")>>]
    /\ UNCHANGED <<logs, steps, nextLogId, call, ops, x12, hl7>>

\* lines 490-495
FacilityVariance(source_context) ==
    source_context.sending_application = <<>> \/ source_context.sending_facility = <<>>

VarianceWarning == "Missing MSH-3/4 (sending application/facility); common facility variance."

\* lines 489-532: the log of a transformed message is stored and answered 200
MirthStore ==
    /\ mirth.pc = "transformed"
    /\ mirth' =
         [mirth EXCEPT
            !.pc = "done",
            !.warn_list = IF FacilityVariance(mirth.source_context)
                          THEN Append(@, VarianceWarning) ELSE @,
            !.logs = Append(@,
                [LogRow("TRANSFORMED",
                        IF FacilityVariance(mirth.source_context)
                        THEN "FACILITY_VARIANCE" ELSE "NONE",
                        IF FacilityVariance(mirth.source_context)
                        THEN <<"Facility variance: missing MSH-3/4; routing/config may differ.">>
                        ELSE <<>>,
                        mirth.steps, mirth)
                 EXCEPT !.patient_id = mirth.summary.patient_id,
                        !.encounter_present = mirth.summary.encounter_present,
                        !.patient_class = mirth.summary.patient_class,
                        !.event_time = mirth.summary.event_time,
                        !.has_x12 = mirth.result.x12_837 # <<>>]),
            !.response = [status_code |-> 200, status |-> "ok", errors |-> <<>>,
                          warnings |-> IF FacilityVariance(mirth.source_context)
                                       THEN Append(mirth.warn_list, VarianceWarning)
                                       ELSE mirth.warn_list]]
    /\ UNCHANGED <<logs, steps, nextLogId, call, ops, x12, hl7>>

NextMirth ==
    \/ \E request \in MirthRequests : MirthAuth(request)
    \/ MirthRead
    \/ MirthValidate
    \/ MirthReject
    \/ MirthTransform
    \/ MirthStore

SpecMirth == Init /\ [][NextMirth]_vars

-----------------------------------------------------------------------------
(* hl7_to_all called several times in one process *)

MaxCalls == 3        \* calls of hl7_to_all in one behaviour (SpecHl7Calls)

Hl7CallTexts ==
    { Msg(<<MSH_full, PID_good, PV1_inpatient>>, LF),
      Msg(<<MSH_full, PID_male, PV1_inpatient>>, CR),
      Msg(<<MSH_oru, PID_good, OBR_panel, OBX_glucose, OBX_short>>, LF),
      Msg(<<MSH_siu>>, LF),
      Msg(<<MSH_type_last, PID_male>>, CR \o LF),
      Msg(<<PID_male, PV1_inpatient>>, LF) }

\* faulty variant of CallResult: the message type found by the previous call
\* is kept
CallResultLeaky(hl7_text, calls) ==
    IF calls = <<>> THEN hl7_to_all(hl7_text)
    ELSE [hl7_to_all(hl7_text) EXCEPT
             !.message_type = AllMessageType(Split(Strip(calls[Len(calls)].hl7_text), "\n"))]

\* what a call returns after the calls made before it: hl7_to_all and the
\* functions it calls read their arguments and local variables only
CallResult(hl7_text, calls) == hl7_to_all(hl7_text)

Hl7Call(hl7_text) ==
    /\ Len(hl7.calls) < MaxCalls
    /\ hl7' = [hl7 EXCEPT !.calls = Append(@, [hl7_text |-> hl7_text,
                                               result |-> CallResult(hl7_text, hl7.calls)])]
    /\ UNCHANGED <<logs, steps, nextLogId, call, ops, x12, mirth>>

NextHl7Calls == \E hl7_text \in Hl7CallTexts : Hl7Call(hl7_text)

SpecHl7Calls == Init /\ [][NextHl7Calls]_vars

-----------------------------------------------------------------------------
(* Properties of ingest_payload *)

Created(c) == call[c].pc # "idle"
Persisted(c) == call[c].pc \in {"finalize", "returned", "raised"}
Returned(c) == call[c].pc = "returned"
Raised(c) == call[c].pc = "raised"
Ended(c) == Returned(c) \/ Raised(c)

\* the stored row of the log of call c, and its stored steps
Row(c) == logs[call[c].log.id]
StepsOf(c) == IF call[c].log.id \in DOMAIN steps THEN steps[call[c].log.id] ELSE <<>>

CountStatus(ss, status) == Cardinality({i \in 1..Len(ss) : ss[i].status = status})
HasStep(ss, name, status) ==
    \E i \in 1..Len(ss) : ss[i].step_name = name /\ ss[i].status = status

\* C1: when ingest_payload returns, the log's status (on the returned object
\* and in the store) is FAILED exactly when a stored step of the log is ERROR
\* and PROCESSED otherwise; it is never RECEIVED, and WARN steps do not fail it.
C1_StatusIffErrorStep ==
    \A c \in Calls :
        Returned(c) =>
            /\ call[c].log.status = Row(c).status
            /\ Row(c).status \in {"FAILED", "PROCESSED"}
            /\ (Row(c).status = "FAILED") <=> (CountStatus(StepsOf(c), "ERROR") > 0)

\* a returned call whose timeline has a WARN step and no ERROR step
C1_Witness ==
    \E c \in Calls :
        /\ Returned(c)
        /\ CountStatus(StepsOf(c), "WARN") > 0
        /\ CountStatus(StepsOf(c), "ERROR") = 0
        /\ Row(c).status = "PROCESSED"

\* C2: ingest_payload never raises: every call that has written its steps and
\* ended has returned, and its stored log is PROCESSED or FAILED.
C2_NeverRaises ==
    \A c \in Calls :
        /\ ~Raised(c)
        /\ (Persisted(c) /\ Ended(c)) => Row(c).status \in {"PROCESSED", "FAILED"}

\* C3: the stored steps of a log are numbered 1, 2, ... in the order they were
\* produced; once the persist loop is over the timeline is one parse step, then
\* validate steps only, then one transform step holding the highest number.
C3_Timeline ==
    \A c \in Calls :
        Created(c) =>
            LET ss == StepsOf(c) IN
            /\ Len(ss) <= Len(call[c].all_steps)
            /\ \A i \in 1..Len(ss) :
                 /\ ss[i].sequence = i
                 /\ ss[i].trace_log = call[c].log.id
                 /\ ss[i].step_name = call[c].all_steps[i].step_name
                 /\ ss[i].status = call[c].all_steps[i].status
            /\ Persisted(c) =>
                 /\ Len(ss) >= 3
                 /\ ss[1].step_name = "parse"
                 /\ ss[Len(ss)].step_name = "transform"
                 /\ ss[Len(ss)].sequence = Len(ss)
                 /\ \A i \in 2..(Len(ss) - 1) : ss[i].step_name = "validate"

\* a fully persisted timeline of five steps (two warnings between parse and
\* the aggregated validate step)
C3_Witness ==
    \E c \in Calls : Persisted(c) /\ Len(StepsOf(c)) >= 5

\* C4: once the log is finalized, its error_count is the number of its stored
\* ERROR steps, and it is positive exactly when the status is FAILED.
C4_ErrorCount ==
    \A c \in Calls :
        Returned(c) =>
            /\ Row(c).error_count = CountStatus(StepsOf(c), "ERROR")
            /\ (Row(c).error_count > 0) <=> (Row(c).status = "FAILED")

\* a finalized log with an ERROR step beside WARN and OK steps
C4_Witness ==
    \E c \in Calls :
        /\ Returned(c)
        /\ Row(c).error_count >= 1
        /\ CountStatus(StepsOf(c), "WARN") >= 1
        /\ CountStatus(StepsOf(c), "OK") >= 1

\* the store operations of one call so far: a create_log, then create_steps,
\* then at most one update_log, which is last
OpsInOrder(h) ==
    \A i \in 1..Len(h) :
        /\ (i = 1) <=> (h[i].op = "create_log")
        /\ h[i].op = "update_log" => i = Len(h) /\ i >= 2
        /\ h[i].op \in {"create_log", "create_step", "update_log"}

OpsComplete(h) ==
    /\ Len(h) >= 3
    /\ h[1].op = "create_log" /\ h[1].status = "RECEIVED"
    /\ h[1].summary = <<T("Received payload")>> /\ h[1].error_count = 0
    /\ h[Len(h)].op = "update_log" /\ h[Len(h)].fields = SaveFields
    /\ \A i \in 2..(Len(h) - 1) : h[i].op = "create_step"

\* C5: within one ingest call the store sees one log creation (RECEIVED,
\* "Received payload", error_count 0), then every step creation, then exactly
\* one log update writing the six final fields; nothing follows the update.
C5_StoreOrder ==
    \A c \in Calls :
        /\ OpsInOrder(ops[c])
        /\ Ended(c) => OpsComplete(ops[c])

\* what call c stores when it runs alone
SoloOutcome(c) ==
    ingest_steps(guess_input_type(call[c].raw_payload, call[c].declared),
                 call[c].raw_payload, call[c].output_type)

SoloRaises(c) ==
    normalize_meta(MetaOrEmpty(call[c].meta),
                   guess_input_type(call[c].raw_payload, call[c].declared),
                   SoloOutcome(c).preview).raised

SoloRow(c, st, i) ==
    [trace_log |-> call[c].log.id, sequence |-> i, step_name |-> st.step_name,
     status |-> st.status, message |-> st.message, details |-> st.details]

\* C6: under any interleaving of the store operations of concurrent calls,
\* every log holds only its own call's steps, numbered 1..N, and ends with the
\* status, error_count and step list of the same call run alone.
C6_Independent ==
    /\ \A c, d \in Calls :
         (c # d /\ Created(c) /\ Created(d)) => call[c].log.id # call[d].log.id
    /\ DOMAIN steps \subseteq {call[c].log.id : c \in {x \in Calls : Created(x)}}
    /\ \A c \in Calls :
         Created(c) =>
            LET solo == SoloOutcome(c).all_steps
                ss == StepsOf(c)
            IN /\ Len(ss) <= Len(solo)
               /\ \A i \in 1..Len(ss) : ss[i] = SoloRow(c, solo[i], i)
               /\ Persisted(c) => Len(ss) = Len(solo)
               /\ Ended(c) =>
                    /\ Raised(c) <=> SoloRaises(c)
                    /\ Row(c).status =
                         (IF SoloRaises(c) THEN "RECEIVED" ELSE SoloOutcome(c).status)
                    /\ Row(c).error_count =
                         (IF SoloRaises(c) THEN 0 ELSE CountStatus(solo, "ERROR"))

\* two calls with different inputs are both inside their persist loops, each
\* with steps already stored, and the log created second belongs to call 1
C6_Witness ==
    \E c, d \in Calls :
        /\ c < d
        /\ call[c].pc = "persist" /\ call[d].pc = "persist"
        /\ call[c].sequence >= 3 /\ call[d].sequence >= 3
        /\ call[c].raw_payload # call[d].raw_payload
        /\ call[d].log.id < call[c].log.id

\* C7: a payload classified JSON whose JSON parsing fails ends with a parse
\* step ERROR, a validate step ERROR, the log FAILED and error_count >= 2.
C7_JsonParseFailure ==
    \A c \in Calls :
        (Returned(c) /\ call[c].input_type = "JSON" /\ ~JsonLoads(call[c].raw_payload).ok) =>
            /\ HasStep(StepsOf(c), "parse", "ERROR")
            /\ HasStep(StepsOf(c), "validate", "ERROR")
            /\ Row(c).status = "FAILED"
            /\ Row(c).error_count >= 2

\* C8: a valid JSON object ingested with no declared type is typed JSON, its
\* preview lists the first 20 top-level keys in order, the log ends PROCESSED
\* with error_count 0 and the timeline is parse OK, validate OK, transform OK.
C8_JsonObject ==
    \A c \in Calls :
        (/\ Ended(c) /\ call[c].declared = "None"
         /\ JsonLoads(call[c].raw_payload).ok
         /\ JsonLoads(call[c].raw_payload).kind = "dict") =>
            LET ks == JsonLoads(call[c].raw_payload).keys
                ss == StepsOf(c)
            IN /\ Row(c).input_type = "JSON"
               /\ Row(c).parsed_preview.keys = SubSeq(ks, 1, Min(20, Len(ks)))
               /\ Row(c).parsed_preview.fields = {"type", "keys"}
               /\ Row(c).status = "PROCESSED"
               /\ Row(c).error_count = 0
               /\ [i \in 1..Len(ss) |-> <<ss[i].step_name, ss[i].status>>]
                    = <<<<"parse", "OK">>, <<"validate", "OK">>, <<"transform", "OK">>>>

-----------------------------------------------------------------------------
(* Properties of the X12 chain *)

X12Ended == x12.pc \in {"reconciled", "raised"}

\* C9: for every claim text whose billed total is a non-negative amount of
\* whole cents, and for every claim produced by fhir_to_837_claim, the
\* reconciliation r of the claim with its generated remittance exists and, for
\* the paid outcome, r.paid_amount + r.patient_responsibility +
\* r.balance_due_to_provider = r.billed_total in cents; for the denied outcome,
\* r.paid_amount = 0 and r.balance_due_to_provider = r.billed_total.
C9_ReconciliationBalances ==
    (X12Ended /\ x12.outcome \in {"paid", "denied"}) =>
        /\ x12.pc = "reconciled"
        /\ x12.outcome = "paid" =>
             x12.reconciliation.paid_amount + x12.reconciliation.patient_responsibility
               + x12.reconciliation.balance_due_to_provider
               = x12.reconciliation.billed_total
        /\ x12.outcome = "denied" =>
             /\ x12.reconciliation.paid_amount = 0
             /\ x12.reconciliation.balance_due_to_provider = x12.reconciliation.billed_total

\* C10: for every claim produced by fhir_to_837_claim, reconciling it with the
\* remittance generated for outcome paid (denied) yields status paid (denied),
\* and the reconciled claim_id and billed_total are the claim id and the total
\* that fhir_to_837_claim wrote in the CLM line.
C10_RoundTrip ==
    (X12Ended /\ x12.from_fhir /\ x12.outcome \in {"paid", "denied"}) =>
        /\ x12.pc = "reconciled"
        /\ x12.reconciliation.status = x12.outcome
        /\ x12.reconciliation.claim_id = PatientId(x12.patient)
        /\ x12.reconciliation.billed_total = 100 * total

-----------------------------------------------------------------------------
(* Order of the validate steps of an HL7 ingest *)

IsWarningStep(st) ==
    st.step_name = "validate" /\ st.status = "WARN" /\ st.details.kind = "validation_warning"

IsAggregateStep(st) == st.step_name = "validate" /\ st.status \in {"OK", "ERROR"}

Hl7Timeline(c) == Persisted(c) /\ call[c].input_type = "HL7"

\* C20 (as the code has it): in the stored timeline of an HL7 ingest every
\* per-warning validate step (WARN, kind validation_warning) precedes the one
\* aggregated validate step (OK or ERROR) of the validation stage, and all of
\* them precede the transform step.
C20_WarningsThenAggregate ==
    \A c \in Calls :
        Hl7Timeline(c) =>
            LET ss == StepsOf(c) IN
            /\ Cardinality({i \in 1..Len(ss) : IsAggregateStep(ss[i])}) = 1
            /\ \A i, j \in 1..Len(ss) :
                 (IsWarningStep(ss[i]) /\ IsAggregateStep(ss[j])) => i < j
            /\ \A i, j \in 1..Len(ss) :
                 (ss[i].step_name = "validate" /\ ss[j].step_name = "transform") => i < j

\* an HL7 timeline holding two warning steps
C20_Witness ==
    \E c \in Calls :
        /\ Hl7Timeline(c)
        /\ Cardinality({i \in 1..Len(StepsOf(c)) : IsWarningStep(StepsOf(c)[i])}) = 2

\* C20 (as stated): the aggregated validate step precedes every per-warning
\* validate step, and all of them precede the transform step.
C20_AggregateThenWarnings ==
    \A c \in Calls :
        Hl7Timeline(c) =>
            LET ss == StepsOf(c) IN
            /\ \A i, j \in 1..Len(ss) :
                 (IsAggregateStep(ss[i]) /\ IsWarningStep(ss[j])) => i < j
            /\ \A i, j \in 1..Len(ss) :
                 (ss[i].step_name = "validate" /\ ss[j].step_name = "transform") => i < j

-----------------------------------------------------------------------------
(* Properties of the HL7 functions (SpecHl7).  The message is described    *)
(* by its segments as HL7 delimits them: the lines that CR, LF or CRLF     *)
(* end, blanks around a line dropped.                                      *)

\* the fields of the first segment called name, <<"">> when there is none
FirstSegment(hl7_text, name) ==
    Split(FirstLineWith(StripAll(SplitLines(hl7_text)), <<name>>), "|")

HasSegment(hl7_text, name) ==
    FirstLineWith(StripAll(SplitLines(hl7_text)), <<name>>) # <<>>

\* MSH-9 of the first header segment, empty when it is missing
HeaderType(hl7_text) == FieldOr(FirstSegment(hl7_text, "MSH"), 8, <<>>)

IsAdtMessage(hl7_text) == StartsWith(HeaderType(hl7_text), <<"ADT">>)

\* the first component of PID-3 of the first PID segment
FirstIdentifier(hl7_text) ==
    IF FieldOr(FirstSegment(hl7_text, "PID"), 3, <<>>) = <<>> THEN <<>>
    ELSE Split(FirstSegment(hl7_text, "PID")[4], "^")[1]

\* the same segments under another line terminator
Reterminate(hl7_text, eol) == Msg(SplitLines(hl7_text), eol)

ClinicalKeys ==
    {"patient", "encounter", "x12_837", "x12_835", "claim_reconciliation", "patient_id",
     "report", "observations"}

\* C11: when the message has no MSH segment, or its MSH segment has fewer
\* than 9 fields or an empty MSH-9, hl7_to_all returns the "Unable to
\* determine HL7 message type" error result and no clinical entry, under
\* every line terminator.
C11_UnknownType ==
    (hl7.pc = "done" /\ HeaderType(hl7.hl7_text) = <<>>)
        => /\ hl7.result.outcome = "unknown_type"
           /\ hl7.result.keys \cap ClinicalKeys = {}

C14_NoHeaderOneError ==
    (hl7.pc \notin {"idle", "received"} /\ ~StartsWith(Strip(hl7.hl7_text), <<"MSH">>))
        => /\ hl7.validation.errors
                = <<"Missing MSH segment (message must start with MSH)">>
           /\ hl7.validation.warnings = <<>>

C14_Witness ==
    /\ hl7.pc = "validated"
    /\ ~StartsWith(Strip(hl7.hl7_text), <<"MSH">>)
    /\ IsAdtMessage(hl7.hl7_text)
    /\ ~HasSegment(hl7.hl7_text, "PID")
    /\ Len(hl7.validation.errors) = 1

\* C15: for an ADT message with a PID segment whose first component of PID-3
\* is empty, validate_hl7_message returns an error; so when it returns no
\* error for an ADT message, the patient of hl7_to_fhir_patient has an
\* identifier.
C15_EmptyIdentifierRejected ==
    /\ (/\ hl7.pc \notin {"idle", "received"}
        /\ IsAdtMessage(hl7.hl7_text) /\ HasSegment(hl7.hl7_text, "PID")
        /\ FirstIdentifier(hl7.hl7_text) = <<>>)
           => hl7.validation.errors # <<>>
    /\ (/\ hl7.pc \in {"patient", "encounter", "done"}
        /\ IsAdtMessage(hl7.hl7_text) /\ hl7.validation.errors = <<>>)
           => hl7.patient.identifier # <<>>

\* C16: hl7_to_fhir_patient and hl7_to_fhir_encounter return a resource for a
\* PID and a PV1 segment of any length, every field and component past the
\* end read as empty; a failure is never one of range (the only one is the
\* parse of a PV1-44 that is there); a segment that does not occur gives an
\* absent result.
C16_MissingReadsEmpty ==
    hl7.pc \in {"encounter", "done"} =>
        /\ hl7.patient.present <=> HasSegment(hl7.hl7_text, "PID")
        /\ HasSegment(hl7.hl7_text, "PID") =>
             /\ Len(FirstSegment(hl7.hl7_text, "PID")) <= 3
                   => hl7.patient.id = <<>> /\ hl7.patient.identifier = <<>>
             /\ Len(FirstSegment(hl7.hl7_text, "PID")) <= 5
                   => hl7.patient.family = <<>> /\ hl7.patient.given = <<>>
             /\ Len(FirstSegment(hl7.hl7_text, "PID")) <= 7 => hl7.patient.birthDate = <<>>
             /\ Len(FirstSegment(hl7.hl7_text, "PID")) <= 8 => hl7.patient.gender = "unknown"
             /\ Len(FirstSegment(hl7.hl7_text, "PID")) <= 11 => hl7.patient.line1 = <<>>
             /\ hl7.patient.id = FirstIdentifier(hl7.hl7_text)
        /\ ~HasSegment(hl7.hl7_text, "PV1")
              => ~hl7.encounter.present /\ ~hl7.encounter.raised
        /\ HasSegment(hl7.hl7_text, "PV1") =>
             /\ hl7.encounter.present <=> ~hl7.encounter.raised
             /\ hl7.encounter.raised
                   => FieldOr(FirstSegment(hl7.hl7_text, "PV1"), 44, <<>>) # <<>>
             /\ (hl7.encounter.present /\ Len(FirstSegment(hl7.hl7_text, "PV1")) <= 44)
                   => hl7.encounter.start = <<>>
             /\ Len(FirstSegment(hl7.hl7_text, "PV1")) <= 3
                   => hl7.encounter.location = <<>>
             /\ Len(FirstSegment(hl7.hl7_text, "PV1")) <= 2
                   => hl7.encounter.class_code = "AMB"

C16_Witness ==
    /\ hl7.pc = "encounter"
    /\ FirstSegment(hl7.hl7_text, "PID") = <<W("PID")>>
    /\ FirstSegment(hl7.hl7_text, "PV1") = <<W("PV1")>>
    /\ hl7.patient.present /\ hl7.encounter.present

\* C18: for an ADT message with a PID segment (first component of PID-3 not
\* empty) and a PV1 segment, hl7_to_all yields the patient with that
\* identifier and the mapped gender, the encounter with the mapped class and
\* the subject "Patient/<identifier>", and a claim whose CLM segment carries
\* the identifier as claim id and 150 as billed total.
C18_DerivedResources ==
    (/\ hl7.pc = "done"
     /\ IsAdtMessage(hl7.hl7_text)
     /\ HasSegment(hl7.hl7_text, "PID") /\ FirstIdentifier(hl7.hl7_text) # <<>>
     /\ HasSegment(hl7.hl7_text, "PV1"))
        => /\ hl7.result.outcome = "adt"
           /\ hl7.result.patient.identifier = <<[value |-> FirstIdentifier(hl7.hl7_text)]>>
           /\ hl7.result.patient.gender
                = Gender(FieldOr(FirstSegment(hl7.hl7_text, "PID"), 8, <<>>))
           /\ hl7.result.encounter.class_code
                = ClassCode(FieldOr(FirstSegment(hl7.hl7_text, "PV1"), 2, <<>>))
           /\ hl7.result.encounter.subject = W("Patient/") \o FirstIdentifier(hl7.hl7_text)
           /\ parse_837_basic(hl7.result.x12_837).claim_id = FirstIdentifier(hl7.hl7_text)
           /\ parse_837_basic(hl7.result.x12_837).billed_total = 100 * total

\* C19: the message type that hl7_to_all, validate_hl7_message and
\* extract_hl7_summary resolve is MSH-9 of the first header segment, the same
\* for the same segments under CR, LF and CRLF.
C19_SameMessageType ==
    hl7.pc = "done" =>
        /\ hl7.summary.message_type = HeaderType(hl7.hl7_text)
        /\ "message_type" \in hl7.result.keys
              => hl7.result.message_type = HeaderType(hl7.hl7_text)
        /\ (hl7.result.outcome = "unknown_type") <=> (HeaderType(hl7.hl7_text) = <<>>)
        /\ StartsWith(Strip(hl7.hl7_text), <<"MSH">>)
              => ((\E i \in 1..Len(hl7.validation.errors) :
                      hl7.validation.errors[i] = "Missing MSH-9 (message type)")
                  <=> HeaderType(hl7.hl7_text) = <<>>)
        /\ \A eol \in Terminators :
              /\ AllMessageType(Split(Strip(Reterminate(hl7.hl7_text, eol)), "\n"))
                   = AllMessageType(Split(Strip(hl7.hl7_text), "\n"))
              /\ extract_hl7_summary(Reterminate(hl7.hl7_text, eol)).message_type
                   = hl7.summary.message_type

-----------------------------------------------------------------------------
(* Properties of MirthHL7View.post (SpecMirth) *)

MirthEnded == mirth.pc \in {"done", "raised"}

\* C13: hl7_to_all is called only after validate_hl7_message returned no
\* error; when it returned errors the request ends with one stored log,
\* FAILED with category VALIDATION, whose steps are RECEIVED (OK) and
\* VALIDATION (ERROR) with no TRANSFORM step, and the errors are returned as a
\* list.
C13_ErrorsBlockTransform ==
    /\ mirth.transforms > 0
          => /\ mirth.errors = <<>>
             /\ validate_hl7_message(mirth.normalized).errors = <<>>
    /\ (MirthEnded /\ mirth.errors # <<>>)
          => /\ mirth.transforms = 0
             /\ Len(mirth.logs) = 1
             /\ mirth.logs[1].processing_status = "FAILED"
             /\ mirth.logs[1].error_category = "VALIDATION"
             /\ mirth.logs[1].steps
                  = <<Step(1, "RECEIVED", "OK"), Step(2, "VALIDATION", "ERROR")>>
             /\ mirth.response.errors = mirth.errors

-----------------------------------------------------------------------------
(* Properties of logtrace/services.py, continued (Spec) *)

LooksJson(raw) == StartsWith(Strip(raw), <<"{">>) \/ StartsWith(Strip(raw), <<"[">>)
LooksHl7(raw) == Contains(raw, <<"MSH", "|">>)
LooksEdi(raw) == StartsWith(Strip(raw), <<"ISA">>) \/ Contains(Strip(raw), <<"*", "00", "*">>)

\* C21: the input type of a log is the declared type when that is HL7, JSON
\* or EDI; otherwise it is JSON for a payload that starts with { or [, else
\* HL7 for one that contains "MSH|", else EDI for one that starts with ISA or
\* contains "*00*", else OTHER; it is always one of the four types.
C21_Classification ==
    \A c \in Calls :
        Created(c) =>
            /\ call[c].input_type \in InputTypes
            /\ logs[call[c].log.id].input_type = call[c].input_type
            /\ call[c].declared \in {"HL7", "JSON", "EDI"}
                  => call[c].input_type = call[c].declared
            /\ call[c].declared \notin {"HL7", "JSON", "EDI"}
                  => /\ LooksJson(call[c].raw_payload) => call[c].input_type = "JSON"
                     /\ (~LooksJson(call[c].raw_payload) /\ LooksHl7(call[c].raw_payload))
                           => call[c].input_type = "HL7"
                     /\ (/\ ~LooksJson(call[c].raw_payload)
                         /\ ~LooksHl7(call[c].raw_payload)
                         /\ LooksEdi(call[c].raw_payload))
                           => call[c].input_type = "EDI"
                     /\ (/\ ~LooksJson(call[c].raw_payload)
                         /\ ~LooksHl7(call[c].raw_payload)
                         /\ ~LooksEdi(call[c].raw_payload))
                           => call[c].input_type = "OTHER"

C21_Witness ==
    \E c \in Calls :
        /\ Created(c)
        /\ call[c].declared = "XML"
        /\ LooksHl7(call[c].raw_payload) /\ LooksEdi(call[c].raw_payload)
        /\ ~LooksJson(call[c].raw_payload)
        /\ call[c].input_type = "HL7"

-----------------------------------------------------------------------------
(* Properties of the remittance and the reconciliation, continued (SpecX12) *)

\* the fields of the CLP line of a remittance and its CAS lines, as a reader
\* of the text finds them
ClpFields(x12_835) == Split(FirstLineWith(X12Segments(x12_835), <<"CLP", "*">>), "*")
CasLines(x12_835) ==
    SelectSeq(X12Segments(x12_835), LAMBDA seg : StartsWith(seg, <<"CAS", "*">>))
Cents(field) == FloatOf(field).cents

X12Remitted == x12.pc \in {"remitted", "reconciled"} \/ (x12.pc = "raised" /\ x12.x12_835 # <<>>)

\* C22: generate_835_from_837 treats every outcome but "denied" as paid.  A
\* paid remittance has CLP status 1 and a CAS line exactly when the patient
\* responsibility is above 0; a denied one has CLP status 4, paid 0, patient
\* responsibility 0 and one CAS line with the billed total.  There is never
\* more than one CAS line.
C22_Remittance ==
    X12Remitted =>
        /\ Len(CasLines(x12.x12_835)) <= 1
        /\ Cents(ClpFields(x12.x12_835)[4]) = parse_837_basic(x12.x12_837).billed_total
        /\ x12.outcome # "denied" =>
              /\ ClpFields(x12.x12_835)[3] = W("1")
              /\ (Len(CasLines(x12.x12_835)) = 1)
                    <=> (Cents(ClpFields(x12.x12_835)[6]) > 0)
              /\ Cents(ClpFields(x12.x12_835)[5]) + Cents(ClpFields(x12.x12_835)[6])
                    = Cents(ClpFields(x12.x12_835)[4])
        /\ x12.outcome = "denied" =>
              /\ ClpFields(x12.x12_835)[3] = W("4")
              /\ Cents(ClpFields(x12.x12_835)[5]) = 0
              /\ Cents(ClpFields(x12.x12_835)[6]) = 0
              /\ Len(CasLines(x12.x12_835)) = 1
              /\ Cents(Split(CasLines(x12.x12_835)[1], "*")[4])
                    = Cents(ClpFields(x12.x12_835)[4])

C22_Witness ==
    /\ x12.pc = "remitted"
    /\ x12.outcome = "pending"
    /\ Cents(ClpFields(x12.x12_835)[4]) > 0
    /\ Cents(ClpFields(x12.x12_835)[6]) = 0
    /\ CasLines(x12.x12_835) = <<>>

\* the CLP line of a remittance, empty when there is none
ClpLine(x12_835) == FirstLineWith(X12Segments(x12_835), <<"CLP", "*">>)

\* C23: for every claim text and every remittance text reconcile_837_835
\* returns a balance_due_to_provider of 0 or more; the billed_total is the
\* billed figure of the CLP line when it carries one and the CLM total of the
\* claim otherwise; the status is "unknown" exactly when there is no CLP line.
C23_BalanceNeverNegative ==
    x12.pc \in {"reconciled", "raised"} =>
        /\ ~x12.reconciliation.raised
        /\ x12.reconciliation.balance_due_to_provider >= 0
        /\ x12.reconciliation.billed_total
             = IF FieldOr(Split(ClpLine(x12.x12_835), "*"), 3, <<>>) # <<>>
               THEN Cents(Split(ClpLine(x12.x12_835), "*")[4])
               ELSE parse_837_basic(x12.x12_837).billed_total
        /\ (x12.reconciliation.status = "unknown") <=> (ClpLine(x12.x12_835) = <<>>)

-----------------------------------------------------------------------------
(* Properties of the HL7 functions, continued (SpecHl7) *)

\* the fields of every line of the message, and the lines whose PV1-44 or
\* MSH-7 is a time
LineFields(hl7_text) ==
    [i \in 1..Len(SplitLines(hl7_text)) |-> Split(SplitLines(hl7_text)[i], "|")]

AdmitTimes(hl7_text) ==
    {FieldOr(LineFields(hl7_text)[i], 44, <<>>) : i \in
        {j \in 1..Len(LineFields(hl7_text)) :
            /\ LineFields(hl7_text)[j][1] = W("PV1")
            /\ IsTime(FieldOr(LineFields(hl7_text)[j], 44, <<>>))}}

HeaderTimes(hl7_text) ==
    {FieldOr(LineFields(hl7_text)[i], 6, <<>>) : i \in
        {j \in 1..Len(LineFields(hl7_text)) :
            /\ LineFields(hl7_text)[j][1] = W("MSH")
            /\ IsTime(FieldOr(LineFields(hl7_text)[j], 6, <<>>))}}

Summarized == hl7.pc \notin {"idle", "received", "validated"}

\* C24: in whatever order the MSH and PV1 lines occur, the event_time of
\* extract_hl7_summary is a PV1-44 time when some PV1 line has one that
\* parses, and an MSH-7 time only when none has.
C24_AdmissionTimePreferred ==
    Summarized =>
        /\ AdmitTimes(hl7.hl7_text) # {}
              => hl7.summary.event_time \in AdmitTimes(hl7.hl7_text)
        /\ AdmitTimes(hl7.hl7_text) = {}
              => hl7.summary.event_time \in HeaderTimes(hl7.hl7_text) \cup {<<>>}

OruDone == hl7.pc = "done" /\ hl7.result.outcome = "oru"

\* the OBX lines of the message, in message order
ObxLines(hl7_text) ==
    SelectSeq(SegmentLines(hl7_text), LAMBDA ln : StartsWith(ln, <<"OBX">>))

\* C25: with several OBR or PID segments the report's code, display and
\* effective time are those of the first OBR segment, the patient id is that of
\* the first PID segment, and every OBX segment is collected.
C25_FirstSegmentsWin ==
    OruDone =>
        /\ hl7.result.report.code
              = Component(FieldOr(FirstSegment(hl7.hl7_text, "OBR"), 4, <<>>), 0)
        /\ hl7.result.report.display
              = Component(FieldOr(FirstSegment(hl7.hl7_text, "OBR"), 4, <<>>), 1)
        /\ hl7.result.report.effectiveDateTime
              = FieldOr(FirstSegment(hl7.hl7_text, "OBR"), 7, <<>>)
        /\ hl7.result.patient_id = FieldOr(FirstSegment(hl7.hl7_text, "PID"), 3, <<>>)
        /\ Len(hl7.result.observations) = Len(ObxLines(hl7.hl7_text))

\* C26: hl7_oru_to_fhir produces one Observation per OBX segment, in message
\* order, with ids obx-1 .. obx-n, and the report's result list references
\* exactly these ids in the same order; without OBX segments both are empty.
C26_OneObservationPerObx ==
    OruDone =>
        /\ Len(hl7.result.observations) = Len(ObxLines(hl7.hl7_text))
        /\ \A i \in 1..Len(ObxLines(hl7.hl7_text)) :
              /\ hl7.result.observations[i].id = i
              /\ hl7.result.observations[i].code
                    = Component(FieldOr(Split(ObxLines(hl7.hl7_text)[i], "|"), 3, <<>>), 0)
              /\ hl7.result.observations[i].valueString
                    = FieldOr(Split(ObxLines(hl7.hl7_text)[i], "|"), 5, <<>>)
        /\ hl7.result.report.result = [i \in 1..Len(ObxLines(hl7.hl7_text)) |-> i]

C26_Witness ==
    /\ OruDone
    /\ Len(hl7.result.observations) = 2
    /\ hl7.result.observations[1].code # hl7.result.observations[2].code
    /\ hl7.result.report.result = <<1, 2>>

C26_WitnessEmpty ==
    /\ OruDone
    /\ HasSegment(hl7.hl7_text, "OBR")
    /\ hl7.result.observations = <<>>
    /\ hl7.result.report.result = <<>>

-----------------------------------------------------------------------------
(* Properties of ingest_payload, continued (Spec) *)

\* PID-5 (name), PID-7 (date of birth) and PID-11 (address), as 0-based
\* positions of the split line
DemographicFields == {5, 7, 11}

\* two lines with the same fields, but for the demographic fields of a PID line
SameLineButDemographics(a, b) ==
    /\ Len(Split(a, "|")) = Len(Split(b, "|"))
    /\ \A i \in 1..Len(Split(a, "|")) :
          \/ Split(a, "|")[i] = Split(b, "|")[i]
          \/ /\ Split(a, "|")[1] = W("PID")
             /\ (i - 1) \in DemographicFields

\* two payloads that differ only in the PID name, date of birth or address
SameButDemographics(p, q) ==
    /\ Len(SplitLines(p)) = Len(SplitLines(q))
    /\ \A i \in 1..Len(SplitLines(p)) :
          SameLineButDemographics(SplitLines(p)[i], SplitLines(q)[i])

Hl7Returned(c) == call[c].pc = "returned" /\ call[c].input_type = "HL7"

\* C27: the HL7 preview stored by ingest_payload is redacted: a payload that
\* differs from the ingested one only in the PID name, date of birth or
\* address has the same parsed_preview and the same step details.
C27_PreviewRedacted ==
    \A c \in Calls : Hl7Returned(c) =>
        \A q \in Hl7Payloads : SameButDemographics(call[c].raw_payload, q) =>
            /\ parse_preview("HL7", q).preview = logs[call[c].log.id].parsed_preview
            /\ \A i \in 1..Len(steps[call[c].log.id]) :
                  steps[call[c].log.id][i].step_name = "parse"
                     => steps[call[c].log.id][i].details = parse_preview("HL7", q).steps[1].details

\* the stored steps of a log, none when no step was created
StepsOfLog(id) == IF id \in DOMAIN steps THEN steps[id] ELSE <<>>

Review(c) == review_required(logs[call[c].log.id], StepsOfLog(call[c].log.id))

Processing(c) == processing_status(logs[call[c].log.id], StepsOfLog(call[c].log.id))

StoredStatuses(c) ==
    {StepsOfLog(call[c].log.id)[i].status : i \in 1..Len(StepsOfLog(call[c].log.id))}

\* C28: for every log finalized by ingest_payload, review_required holds exactly
\* when processing_status is not SUCCESS: FAILED gives FAILED_TRANSFORMATION
\* with review, PROCESSED with a WARN step gives SUCCESS_WITH_WARNINGS with
\* review, PROCESSED with only OK steps gives SUCCESS without review, and no
\* log has an ERROR step while SUCCESS or SUCCESS_WITH_WARNINGS.
C28_ReviewIffNotSuccess ==
    \A c \in Calls : call[c].pc = "returned" =>
        /\ Review(c) <=> Processing(c) # "SUCCESS"
        /\ logs[call[c].log.id].status = "FAILED"
              => Processing(c) = "FAILED_TRANSFORMATION" /\ Review(c)
        /\ logs[call[c].log.id].status = "PROCESSED" /\ "WARN" \in StoredStatuses(c)
              => Processing(c) = "SUCCESS_WITH_WARNINGS" /\ Review(c)
        /\ logs[call[c].log.id].status = "PROCESSED" /\ StoredStatuses(c) = {"OK"}
              => Processing(c) = "SUCCESS" /\ ~Review(c)
        /\ Processing(c) \in {"SUCCESS", "SUCCESS_WITH_WARNINGS"}
              => "ERROR" \notin StoredStatuses(c)

C28_Witness ==
    \E c \in Calls :
        /\ call[c].pc = "returned"
        /\ logs[call[c].log.id].status = "PROCESSED"
        /\ logs[call[c].log.id].error_count = 0
        /\ StoredStatuses(c) = {"OK", "WARN"}
        /\ Processing(c) = "SUCCESS_WITH_WARNINGS"
        /\ Review(c)

C28_WitnessSuccess ==
    \E c \in Calls :
        /\ call[c].pc = "returned"
        /\ StoredStatuses(c) = {"OK"}
        /\ Processing(c) = "SUCCESS"
        /\ ~Review(c)

C28_WitnessFailed ==
    \E c \in Calls :
        /\ call[c].pc = "returned"
        /\ "ERROR" \in StoredStatuses(c)
        /\ Processing(c) = "FAILED_TRANSFORMATION"
        /\ Review(c)

-----------------------------------------------------------------------------
(* Properties of MirthHL7View.post, continued (SpecMirth) *)

\* the stored logs with processing_status TRANSFORMED
TransformedLogs ==
    {i \in 1..Len(mirth.logs) : mirth.logs[i].processing_status = "TRANSFORMED"}

HasMirthStep(row, step, status) ==
    \E k \in 1..Len(row.steps) : row.steps[k].step = step /\ row.steps[k].status = status

\* C29: a log with processing_status TRANSFORMED and a TRANSFORM step OK is
\* stored only when hl7_to_all returned a clinical result without an error
\* entry; a validated message whose type is neither ADT nor ORU is not
\* recorded as TRANSFORMED.
C29_TransformedOnlyClinical ==
    \A i \in TransformedLogs :
        HasMirthStep(mirth.logs[i], "TRANSFORM", "OK") =>
            /\ "error" \notin mirth.result.keys
            /\ mirth.result.keys \cap ClinicalKeys # {}
            /\ \/ StartsWith(mirth.logs[i].message_type, <<"ADT">>)
               \/ StartsWith(mirth.logs[i].message_type, <<"ORU">>)

\* C30: every request handled by MirthHL7View.post, on every path, creates
\* exactly one HL7MessageLog, whose steps carry the sequence numbers 1..n
\* without gap and whose processing_status is FAILED or TRANSFORMED.
C30_OneLogPerRequest ==
    MirthEnded =>
        /\ Len(mirth.logs) = 1
        /\ \A i \in 1..Len(mirth.logs) :
              /\ mirth.logs[i].steps # <<>>
              /\ \A k \in 1..Len(mirth.logs[i].steps) :
                    mirth.logs[i].steps[k].sequence = k
              /\ mirth.logs[i].processing_status \in {"FAILED", "TRANSFORMED"}

====
